---- MODULE Spec2Model ----
(***************************************************************************)
(* The transaction execution and confirmation engine of the gateway        *)
(* (Solana chain + Jupiter connector) and the trade orchestration in       *)
(* front of it.                                                            *)
(*                                                                         *)
(*   trade()                      src/src/chains/solana/solana.routes.ts   *)
(*   Jupiter.executeSwap          src/src/chains/solana/solana.routes.ts   *)
(*   Solana.sendAndConfirmTransaction, sendRawTransaction,                 *)
(*   confirmTransaction, getBalance        src/unnamed/part_001            *)
(*                                                                         *)
(* Numbers are exact: a UI amount is a pair (raw, dec) standing for        *)
(* raw / 10^dec and a price is a fraction num / den, so the comparisons    *)
(* the code makes with Decimal are made here on integers.  The binary      *)
(* rounding of the JavaScript numbers in between is not modelled.          *)
(***************************************************************************)
EXTENDS Integers, Sequences, FiniteSets, TLC

(***************************************************************************)
(* Bounds of the model.                                                    *)
(***************************************************************************)
NumEndpoints == 2
MaxTicks == 1
MaxCalls == 3
MaxClockTicks == 2
MaxPoolSize == 3
MaxPoolCalls == 5
MaxRequesters == 2
MaxListLen == 3
MaxEscalations == 6
MaxRacers == 2
MaxRaceTicks == 2
MaxInitCalls == 2

(***************************************************************************)
(* Literals of the program.                                                *)
(***************************************************************************)
BASE_FEE == 5000
HEIGHT_TOLERANCE == 50
MICRO_PER_UNIT == 1000000
PRIORITY_FEE_CACHE_MS == 10000

(***************************************************************************)
(* Configuration of the chain instance (read from the configuration in the *)
(* constructor of Solana).                                                 *)
(***************************************************************************)
defaultComputeUnits == 500000
minPriorityFee == 1
maxPriorityFee == 4
chainRetryCount == 2

\* priorityFeeMultiplier, a fraction num/den greater than 1
Multipliers == { [num |-> 2, den |-> 1], [num |-> 3, den |-> 2] }

(***************************************************************************)
(* Values.                                                                 *)
(***************************************************************************)
\* null / undefined of the program
Null == [isNull |-> TRUE]
Undefined == [isUndefined |-> TRUE]

RECURSIVE Pow10(_)
Pow10(n) == IF n = 0 THEN 1 ELSE 10 * Pow10(n - 1)

\* a UI amount raw / 10^dec
Amt(raw, dec) == [raw |-> raw, dec |-> dec]

\* a < b on exact decimals (Decimal.lt)
DecLt(a, b) == a.raw * Pow10(b.dec) < b.raw * Pow10(a.dec)

\* a / b as a fraction (Number(a) / Number(b))
Ratio(a, b) == [num |-> a.raw * Pow10(b.dec), den |-> b.raw * Pow10(a.dec)]

\* price > limit and price < limit for a price num/den with den > 0 and an
\* integer limit (Decimal.gt, Decimal.lt)
PriceGt(p, limit) == p.num > limit * p.den
PriceLt(p, limit) == p.num < limit * p.den

Endpoints == 1..NumEndpoints

(***************************************************************************)
(* Token list and symbol resolution.                                       *)
(***************************************************************************)
TokenList ==
    << [symbol |-> "USDC", address |-> "mintUSDC", decimals |-> 2],
       [symbol |-> "BONK", address |-> "mintBONK", decimals |-> 1] >>

toUpperCase(s) ==
    CASE s = "usdc" -> "USDC"
      [] s = "Usdc" -> "USDC"
      [] s = "bonk" -> "BONK"
      [] s = "sol" -> "SOL"
      [] OTHER -> s

\* loadTokens: _tokenMap[token.symbol] = token, in list order
loadTokens(list) ==
    LET syms == { list[i].symbol : i \in 1..Len(list) }
        last(s) == CHOOSE i \in 1..Len(list) :
                      /\ list[i].symbol = s
                      /\ \A j \in (i + 1)..Len(list) : list[j].symbol # s
    IN  [s \in syms |-> list[last(s)]]

getTokenForSymbol(symbol) ==
    LET tokenMap == loadTokens(TokenList)
    IN  IF symbol \in DOMAIN tokenMap THEN tokenMap[symbol] ELSE Null

(***************************************************************************)
(* Wallet states on chain: the native balance in lamports and the token    *)
(* accounts of the owner, in the order the RPC node returns them.          *)
(***************************************************************************)
Wallets ==
    { [lamports |-> 0, accounts |-> << >>],
      [lamports |-> 1, accounts |-> << [mint |-> "mintUSDC", amount |-> 50],
                                       [mint |-> "mintBONK", amount |-> 5] >>],
      [lamports |-> 1, accounts |-> << [mint |-> "mintBONK", amount |-> 10],
                                       [mint |-> "mintUSDC", amount |-> 100] >>] }

\* getBalance(wallet, symbols): a map symbol -> UI amount holding "SOL" when
\* asked for and one entry per token account whose mint is a listed token
\* with an asked-for symbol; a later account of the same symbol overwrites.
RECURSIVE processAccounts(_, _, _)
processAccounts(accounts, tokenDefs, balances) ==
    IF accounts = << >> THEN balances
    ELSE LET value == Head(accounts)
             rest == Tail(accounts)
         IN  IF value.mint \notin DOMAIN tokenDefs
             THEN processAccounts(rest, tokenDefs, balances)
             ELSE LET tokenDef == tokenDefs[value.mint]
                      uiAmount == Amt(value.amount, tokenDef.decimals)
                      others == DOMAIN balances \ {tokenDef.symbol}
                  IN  processAccounts(rest, tokenDefs,
                          [s \in others \cup {tokenDef.symbol} |->
                              IF s = tokenDef.symbol THEN uiAmount ELSE balances[s]])

getBalance(w, symbols) ==
    LET upperCaseSymbols == { toUpperCase(s) : s \in symbols }
        sol == IF "SOL" \in upperCaseSymbols
               THEN [s \in {"SOL"} |-> Amt(w.lamports, 9)]
               ELSE [s \in {} |-> Amt(0, 0)]
        listed == { i \in 1..Len(TokenList) :
                       toUpperCase(TokenList[i].symbol) \in upperCaseSymbols }
        last(a) == CHOOSE i \in listed :
                      /\ TokenList[i].address = a
                      /\ \A j \in listed : TokenList[j].address = a => j <= i
        tokenDefs == [a \in { TokenList[i].address : i \in listed } |->
                         [symbol |-> TokenList[last(a)].symbol,
                          decimals |-> TokenList[last(a)].decimals]]
    IN  processAccounts(w.accounts, tokenDefs, sol)

(***************************************************************************)
(* Trade requests.  amount and limitPrice arrive as decimal strings; the   *)
(* model holds the integer they denote.  limitPrice may be absent.         *)
(***************************************************************************)
Sides == {"BUY", "SELL"}
Amounts == {1}
LimitPrices == {Undefined, [str |-> 1]}
Pairs == { <<"BONK", "USDC">>, <<"XXX", "USDC">>, <<"BONK", "XXX">> }

Requests ==
    { [base |-> p[1], quote |-> p[2], amount |-> a, side |-> s, limitPrice |-> l] :
        p \in Pairs, a \in Amounts, s \in Sides, l \in LimitPrices }

\* truthiness of req.limitPrice: a non-empty string is truthy, undefined is not
Truthy(v) == v # Undefined

(***************************************************************************)
(* What the collaborators can answer.                                      *)
(***************************************************************************)
\* priority-fee estimates (microLamports per compute unit), never below the
\* minimum fee per compute unit minPriorityFee / defaultComputeUnits * 10^6
EstimateValues == {2, 10}

\* the amounts the aggregator may quote for the free side of a swap
MarketAmounts(token) ==
    { 5 * Pow10(token.decimals - 1), Pow10(token.decimals), 2 * Pow10(token.decimals) }

\* Jupiter.getQuote: the request it sends for (input, output, amount, swapMode)
quoteParams(inputToken, outputToken, amount, swapMode) ==
    LET tokenDecimals == IF swapMode = "ExactOut"
                         THEN outputToken.decimals ELSE inputToken.decimals
    IN  [inputMint |-> inputToken.address,
         outputMint |-> outputToken.address,
         amount |-> amount * Pow10(tokenDecimals),
         swapMode |-> swapMode]

\* the quotes the aggregator may return for a request: the fixed side is the
\* requested amount, the free side is the market's
quoteGet(params, inputToken, outputToken) ==
    IF params.swapMode = "ExactIn"
    THEN { [inputMint |-> params.inputMint, outputMint |-> params.outputMint,
            inAmount |-> params.amount, outAmount |-> o,
            swapMode |-> params.swapMode] : o \in MarketAmounts(outputToken) }
    ELSE { [inputMint |-> params.inputMint, outputMint |-> params.outputMint,
            inAmount |-> i, outAmount |-> params.amount,
            swapMode |-> params.swapMode] : i \in MarketAmounts(inputToken) }

\* getTradeInfo's quote request: BUY passes (quote, base) and no swap mode,
\* so the default ExactIn applies; SELL passes (base, quote, 'ExactIn')
tradeQuoteParams(side, baseToken, quoteToken, amount) ==
    IF side = "BUY"
    THEN quoteParams(quoteToken, baseToken, amount, "ExactIn")
    ELSE quoteParams(baseToken, quoteToken, amount, "ExactIn")

\* getTradeInfo's result from a quote
makeTradeInfo(side, baseToken, quoteToken, amount, q, pf) ==
    LET baseAmount == IF side = "BUY" THEN Amt(q.outAmount, baseToken.decimals)
                      ELSE Amt(q.inAmount, baseToken.decimals)
        quoteAmount == IF side = "BUY" THEN Amt(q.inAmount, quoteToken.decimals)
                       ELSE Amt(q.outAmount, quoteToken.decimals)
    IN  [baseToken |-> baseToken,
         quoteToken |-> quoteToken,
         requestAmount |-> amount * Pow10(baseToken.decimals),
         expectedPrice |-> Ratio(quoteAmount, baseAmount),
         expectedAmount |-> quoteAmount,
         gasEstimate |-> [gasPrice |-> pf, gasLimit |-> defaultComputeUnits]]

\* getGasPrice() * 1e9: base fee plus floor(units * fee / 10^6), in lamports
getGasPriceLamports(pf) == BASE_FEE + (defaultComputeUnits * pf) \div MICRO_PER_UNIT

\* getSignatureStatuses answers and what getParsedTransaction returns
ChainErr == [InstructionError |-> "custom"]
TxDatas == { [fee |-> 5200, computeUnitsConsumed |-> 100],
             [fee |-> 5600, computeUnitsConsumed |-> 200] }
Statuses == { [err |-> e, confirmationStatus |-> c] :
                 e \in {Null, ChainErr}, c \in {"processed", "confirmed", "finalized"} }
StatusAnswers ==
    { [kind |-> "timeout"], [kind |-> "httpError"], [kind |-> "ok", status |-> Null] }
    \cup { [kind |-> "ok", status |-> s] : s \in Statuses }

\* transaction identifiers an endpoint may return for a payload, or a rejection
Signatures == {"sigA", "sigB"}
Rejected == "rejected"
Replies == Signatures \cup {Rejected}

(***************************************************************************)
(* Errors: the code of the HttpException, or "Error" for a plain Error,    *)
(* and what raised it.                                                     *)
(***************************************************************************)
Err(code, cause) == [code |-> code, cause |-> cause]
NoError == Err("none", "none")

(***************************************************************************)
(* State.                                                                  *)
(***************************************************************************)
VARIABLES
    \* trade(): position, request, wallet state read by the balance guard,
    \* getTradeInfo's result, outcome
    tradePc, req, wallet, tradeInfo, quote, tradeError, tradeResponse,
    \* the fee-escalation controller: "swap" is Jupiter.executeSwap, "send" is
    \* Solana.sendAndConfirmTransaction
    mode, ctlPc, priorityFeeMultiplier, swapQuote, currentPriorityFee,
    retryCount, tx, blockheight, signature, connection, ctlError, receipt,
    \* the network: current block height, and how often it has advanced
    height, ticks,
    \* history: the transaction broadcast last and the one broadcast before it,
    \* the broadcast round just made (which identifiers the accepting endpoints
    \* returned, whether an endpoint rejected, the network height then), what
    \* the endpoint had reported whose answer ended the controller with success,
    \* whether an on-chain failure was reported, whether a swap was built,
    \* whether a quote / a balance was requested
    lastSent, prevSent, lastRound, accepted, failedSeen, built, quoteRequested,
    balanceQueried,
    \* whether the poll just made reported the identifier Confirmed (kept until
    \* the controller's next step)
    polledConfirmed,
    \* which part of the program the behaviour exercises: a trade() request,
    \* a sendAndConfirmTransaction call, or calls of one of the components
    unit,
    \* a call of confirmTransaction on its own: the endpoint's answer, the
    \* transaction detail it would give, and what the call yields
    confirmCall,
    \* the fee estimator: the configured percentile, the static cache slot,
    \* Date.now() and how often it has advanced, the position of the call in
    \* progress, that call (when it started and completed, whether it queried
    \* the network, the samples it received, its outcome), the call before
    \* it, and the number of calls started
    priorityFeePercentile, lastPriorityFeeEstimate, now, clockTicks, estPc,
    estCall, estPrev, estCount,
    \* the connection pool on its own: its connections (indexed from 0), its
    \* rotation index, the number of getNextConnection calls made, and the
    \* last call (which request made it, what it returned, the index before)
    connections, currentIndex, poolCalls, poolLast,
    \* a call of price() for the request, made at some moment before or
    \* during the trade() of it: its failure, the quote it obtained, whether
    \* it asked the connector for one
    priceCall,
    \* the token resolver on its own: the instance's token list and a call of
    \* getTokenBySymbol (the symbol asked for, what came back)
    tokenList, symbolCall,
    \* the amount fields of a price() response on their own: the requested
    \* amount, the base token's decimals, and the two strings returned
    formatCall,
    \* the fee loop of the controller when no round is ever confirmed: the
    \* fee it started from, the current fee, the multiplier, the escalations
    \* made, whether it has thrown on the ceiling
    escalation,
    \* a call of SolanaController.balances: whether the wallet loaded, the
    \* symbols asked for, whether balances were queried, how the call ended
    balancesCall,
    \* the requests of one round to the pool's endpoints: which round it is,
    \* the endpoints a request has been issued to, those whose request has
    \* settled (answered, failed or timed out), whether the round is over
    fanout,
    \* the phases of one controller call as its requests come and go: where
    \* the call is, the endpoint polled next, the retries counted, the
    \* escalations made, and the endpoints whose status request was abandoned
    \* at its deadline and has not completed yet
    phases,
    \* estimatePriorityFees called by several callers at once: the static
    \* cache slot, Date.now(), and for each caller where its call is, whether
    \* it queried, what it returned and what it wrote to the slot
    race,
    \* a chain instance being initialised by several callers: its _ready and
    \* initializing flags, whether its token maps are loaded, and for each
    \* call of init() where it is and what ready() and the maps were when it
    \* completed
    instance

tradeVars == <<tradePc, req, wallet, tradeInfo, quote, tradeError, tradeResponse>>
ctlVars == <<mode, ctlPc, priorityFeeMultiplier, swapQuote, currentPriorityFee,
             retryCount, tx, blockheight, signature, connection, ctlError, receipt>>
netVars == <<height, ticks>>
histVars == <<lastSent, prevSent, lastRound, accepted, failedSeen, built, quoteRequested,
              balanceQueried, polledConfirmed>>
mainVars == <<tradeVars, ctlVars, netVars, histVars>>
estVars == <<priorityFeePercentile, lastPriorityFeeEstimate, now, clockTicks, estPc,
             estCall, estPrev, estCount>>
poolVars == <<connections, currentIndex, poolCalls, poolLast>>
resolverVars == <<tokenList, symbolCall>>
libVars == <<unit, confirmCall, estVars, poolVars, priceCall, resolverVars, formatCall,
            escalation, balancesCall, fanout, phases, race, instance>>
vars == <<mainVars, libVars>>

Units == {"trade", "send", "confirm", "estimator", "pool", "resolver", "format",
          "escalation", "balances", "fanout", "phases", "race", "init"}

\* requested amounts, as the integer digits * 10^zeros that the decimal
\* string of the request denotes (1, 25, 10000), and token decimals
FormatAmounts == { [digits |-> 1, zeros |-> 0], [digits |-> 25, zeros |-> 0],
                   [digits |-> 1, zeros |-> 4] }
FormatDecimals == {0, 2, 9, 17, 18}

\* token lists as a list file may hold them: symbols in any letter case,
\* repeated or not; the address tells the entries apart
ListedSymbols == {"USDC", "usdc", "BONK"}
TokenLists ==
    UNION { { [i \in 1..n |-> [symbol |-> f[i], address |-> i, decimals |-> 0]] :
                f \in [1..n -> ListedSymbols] } : n \in 0..MaxListLen }
LookupSymbols == {"USDC", "usdc", "Usdc", "BONK", "XXX"}

\* new ConnectionPool(urls): one connection per url
ConnectionPool(n) == [i \in 0..(n - 1) |-> [rpcEndpoint |-> i]]

\* priorityFeePercentile, a fraction num/den in (0, 1]
Percentiles == { [num |-> 1, den |-> 3], [num |-> 1, den |-> 2], [num |-> 1, den |-> 1] }

NoTx == [fee |-> -1, lastValidBlockHeight |-> -1]
NoRound == [accepted |-> {}, rejected |-> FALSE, at |-> -1]

\* the state after construction, for the operation that is then exercised
InitFor(units) ==
    /\ unit \in units
    /\ tradePc = IF unit \in {"trade", "price"} THEN "getWallet" ELSE "idle"
    /\ mode = IF unit \in {"trade", "price"} THEN "swap" ELSE "send"
    /\ ctlPc = IF unit = "send" THEN "start" ELSE "idle"
    /\ req \in IF unit \in {"trade", "price"} THEN Requests ELSE {Null}
    /\ priceCall = Null
    /\ tokenList \in IF unit = "resolver" THEN TokenLists ELSE {TokenList}
    /\ symbolCall = Null
    /\ formatCall = Null
    /\ balancesCall = Null
    /\ instance = IF unit = "init"
                  THEN [ready |-> FALSE, initializing |-> FALSE, tokensLoaded |-> FALSE,
                        calls |-> [c \in 1..MaxInitCalls |->
                                     [pc |-> "idle", readyAtEnd |-> FALSE,
                                      loadedAtEnd |-> FALSE]]]
                  ELSE Null
    /\ race = IF unit = "race"
              THEN [cache |-> Null, now |-> 0,
                    calls |-> [r \in 1..MaxRacers |->
                                 [pc |-> "idle", queried |-> FALSE,
                                  returned |-> Null, wrote |-> Null]]]
              ELSE Null
    /\ phases = IF unit = "phases"
                THEN [pc |-> "broadcast", connection |-> 1, retryCount |-> 0,
                      escalations |-> 0, outstanding |-> {}]
                ELSE Null
    /\ fanout \in IF unit = "fanout"
                  THEN { [round |-> r, issued |-> {}, settled |-> {}, over |-> FALSE] :
                           r \in {"broadcast", "confirm"} }
                  ELSE {Null}
    /\ escalation \in IF unit = "escalation"
                      THEN { [initialFee |-> f, fee |-> f, multiplier |-> m,
                              steps |-> 0, failed |-> FALSE] :
                                f \in 1..maxPriorityFee, m \in Multipliers }
                      ELSE {Null}
    /\ priorityFeeMultiplier \in IF unit \in {"trade", "send"} THEN Multipliers
                                 ELSE {[num |-> 2, den |-> 1]}
    /\ confirmCall = Null
    /\ priorityFeePercentile \in IF unit = "estimator" THEN Percentiles
                                 ELSE {[num |-> 1, den |-> 1]}
    /\ lastPriorityFeeEstimate = Null
    /\ now = 0
    /\ clockTicks = 0
    /\ estPc = "idle"
    /\ estCall = Null
    /\ estPrev = Null
    /\ estCount = 0
    /\ connections \in IF unit = "pool"
                       THEN { ConnectionPool(n) : n \in 1..MaxPoolSize }
                       ELSE { ConnectionPool(1) }
    /\ currentIndex = 0
    /\ poolCalls = 0
    /\ poolLast = Null
    /\ wallet = Null
    /\ tradeInfo = Null
    /\ quote = Null
    /\ tradeError = NoError
    /\ tradeResponse = Null
    /\ swapQuote = Null
    /\ currentPriorityFee = 0
    /\ retryCount = 0
    /\ tx = NoTx
    /\ blockheight = 0
    /\ signature = ""
    /\ connection = 1
    /\ ctlError = NoError
    /\ receipt = Null
    /\ height = 0
    /\ ticks = 0
    /\ lastSent = NoTx
    /\ prevSent = NoTx
    /\ lastRound = NoRound
    /\ accepted = Null
    /\ failedSeen = FALSE
    /\ built = FALSE
    /\ quoteRequested = FALSE
    /\ balanceQueried = FALSE
    /\ polledConfirmed = FALSE

Init == InitFor(Units)

\* a request that is priced as well as traded
PriceInit == InitFor({"price"})

(***************************************************************************)
(* trade()                                                                 *)
(***************************************************************************)
TradeFail(e) ==
    /\ tradePc' = "failed"
    /\ tradeError' = e

\* const keypair = await solanaish.getWallet(req.address)
TradeGetWallet ==
    /\ tradePc = "getWallet"
    /\ \E loaded \in BOOLEAN :
          IF loaded
          THEN tradePc' = "getTradeInfo" /\ UNCHANGED tradeError
          ELSE TradeFail(Err("Error", "getWallet"))
    /\ UNCHANGED <<req, wallet, tradeInfo, quote, tradeResponse>>
    /\ UNCHANGED <<ctlVars, netVars, histVars>>
    /\ UNCHANGED libVars

\* getTradeInfo(...): the ways a call can end. A symbol that is not listed
\* throws a plain Error before any quote is asked for; a failure of getQuote
\* or estimateGas leaves as the PRICE_FAILED HttpException of its catch;
\* otherwise the trade information and the quote it was derived from.
getTradeInfo(r) ==
    LET baseToken == getTokenForSymbol(r.base)
        quoteToken == getTokenForSymbol(r.quote)
    IN  IF baseToken = Null \/ quoteToken = Null
        THEN { [error |-> Err("Error", "TokenNotFound"), quoteRequested |-> FALSE,
                tradeInfo |-> Null, quote |-> Null] }
        ELSE { [error |-> Err("PRICE_FAILED_ERROR_CODE", cause), quoteRequested |-> TRUE,
                tradeInfo |-> Null, quote |-> Null] : cause \in {"getQuote", "estimateGas"} }
             \cup
             { [error |-> NoError, quoteRequested |-> TRUE,
                tradeInfo |-> makeTradeInfo(r.side, baseToken, quoteToken, r.amount, q, pf),
                quote |-> q] :
                  q \in quoteGet(tradeQuoteParams(r.side, baseToken, quoteToken, r.amount),
                                 IF r.side = "BUY" THEN quoteToken ELSE baseToken,
                                 IF r.side = "BUY" THEN baseToken ELSE quoteToken),
                  pf \in EstimateValues }

\* the catch around getTradeInfo in price() and trade(): every Error, the
\* HttpException of getTradeInfo included, is thrown again as PRICE_FAILED
priceFailed(e) == Err("PRICE_FAILED_ERROR_CODE", e.cause)

\* getTradeInfo(...) inside trade()'s try
TradeGetTradeInfo ==
    /\ tradePc = "getTradeInfo"
    /\ \E o \in getTradeInfo(req) :
          /\ quoteRequested' = o.quoteRequested
          /\ IF o.error # NoError
             THEN /\ TradeFail(priceFailed(o.error))
                  /\ UNCHANGED <<tradeInfo, quote>>
             ELSE /\ tradeInfo' = o.tradeInfo
                  /\ quote' = o.quote
                  /\ tradePc' = "limitGuard"
                  /\ UNCHANGED tradeError
    /\ UNCHANGED <<req, wallet, tradeResponse>>
    /\ UNCHANGED <<ctlVars, netVars>>
    /\ UNCHANGED <<lastSent, prevSent, lastRound, accepted, failedSeen, built, balanceQueried,
                   polledConfirmed>>
    /\ UNCHANGED libVars

\* a variant of the limit-price conditions that also rejects at equality
limitRejectsInclusive(side, limitPrice, expectedPrice) ==
    IF side = "BUY"
    THEN Truthy(limitPrice) /\ ~PriceLt(expectedPrice, limitPrice.str)
    ELSE Truthy(limitPrice) /\ ~PriceGt(expectedPrice, limitPrice.str)

\* a variant of the limit-price conditions that applies the BUY comparison to
\* both sides
limitRejectsAbove(side, limitPrice, expectedPrice) ==
    Truthy(limitPrice) /\ PriceGt(expectedPrice, limitPrice.str)

\* the limit-price conditions of trade()
limitRejects(side, limitPrice, expectedPrice) ==
    IF side = "BUY"
    THEN Truthy(limitPrice) /\ PriceGt(expectedPrice, limitPrice.str)
    ELSE Truthy(limitPrice) /\ PriceLt(expectedPrice, limitPrice.str)

\* a variant of trade() that queries the balance before it checks the limit
TradeLimitGuardAfterBalance ==
    /\ tradePc = "limitGuard"
    /\ balanceQueried' = TRUE
    /\ IF limitRejects(req.side, req.limitPrice, tradeInfo.expectedPrice)
       THEN TradeFail(Err(IF req.side = "BUY"
                          THEN "SWAP_PRICE_EXCEEDS_LIMIT_PRICE_ERROR_CODE"
                          ELSE "SWAP_PRICE_LOWER_THAN_LIMIT_PRICE_ERROR_CODE",
                          "limitPrice"))
       ELSE tradePc' = "balanceGuard" /\ UNCHANGED tradeError
    /\ UNCHANGED <<req, wallet, tradeInfo, quote, tradeResponse>>
    /\ UNCHANGED <<ctlVars, netVars>>
    /\ UNCHANGED <<lastSent, prevSent, lastRound, accepted, failedSeen, built, quoteRequested,
                   polledConfirmed>>
    /\ UNCHANGED libVars

\* the limit-price check of trade(), which precedes its balance check
TradeLimitGuard ==
    /\ tradePc = "limitGuard"
    /\ IF limitRejects(req.side, req.limitPrice, tradeInfo.expectedPrice)
       THEN TradeFail(Err(IF req.side = "BUY"
                          THEN "SWAP_PRICE_EXCEEDS_LIMIT_PRICE_ERROR_CODE"
                          ELSE "SWAP_PRICE_LOWER_THAN_LIMIT_PRICE_ERROR_CODE",
                          "limitPrice"))
       ELSE tradePc' = "balanceGuard" /\ UNCHANGED tradeError
    /\ UNCHANGED <<req, wallet, tradeInfo, quote, tradeResponse>>
    /\ UNCHANGED <<ctlVars, netVars, histVars>>
    /\ UNCHANGED libVars

\* a variant of the balance check that lets every wallet pass
balanceCheckSkipped(side, balance, info, amount) == "ok"

\* the balance check of trade(): what it does with the map getBalance returned;
\* "invalid" is new Decimal(undefined) throwing for a symbol the map lacks
balanceCheck(side, balance, info, amount) ==
    LET symbol == IF side = "SELL" THEN info.baseToken.symbol ELSE info.quoteToken.symbol
        needed == IF side = "SELL" THEN Amt(amount, 0) ELSE info.expectedAmount
    IN  IF symbol \notin DOMAIN balance THEN "invalid"
        ELSE IF DecLt(balance[symbol], needed) THEN "insufficient"
        ELSE "ok"

TradeBalanceGuard ==
    /\ tradePc = "balanceGuard"
    /\ balanceQueried' = TRUE
    /\ \/ /\ TradeFail(Err("Error", "getBalance"))
          /\ UNCHANGED wallet
       \/ \E w \in Wallets :
             LET symbol == IF req.side = "SELL" THEN tradeInfo.baseToken.symbol
                           ELSE tradeInfo.quoteToken.symbol
                 check == balanceCheck(req.side, getBalance(w, {symbol}),
                                       tradeInfo, req.amount)
             IN  /\ wallet' = w
                 /\ CASE check = "invalid" ->
                           TradeFail(Err("Error", "DecimalError"))
                      [] check = "insufficient" ->
                           TradeFail(Err(IF req.side = "SELL"
                                         THEN "INSUFFICIENT_BASE_TOKEN_BALANCE_ERROR_CODE"
                                         ELSE "INSUFFICIENT_QUOTE_TOKEN_BALANCE_ERROR_CODE",
                                         "balance"))
                      [] OTHER -> tradePc' = "executeSwap" /\ UNCHANGED tradeError
    /\ UNCHANGED <<req, tradeInfo, quote, tradeResponse>>
    /\ UNCHANGED <<ctlVars, netVars>>
    /\ UNCHANGED <<lastSent, prevSent, lastRound, accepted, failedSeen, built, quoteRequested,
                   polledConfirmed>>
    /\ UNCHANGED libVars

\* a variant of the call that hands over the quote of an earlier price()
\* when there is one
TradeExecuteSwapPricedQuote ==
    /\ tradePc = "executeSwap"
    /\ ctlPc = "idle"
    /\ tradePc' = "awaitSwap"
    /\ ctlPc' = "start"
    /\ swapQuote' = IF priceCall # Null /\ priceCall.quote # Null
                    THEN priceCall.quote ELSE quote
    /\ UNCHANGED <<req, wallet, tradeInfo, quote, tradeError, tradeResponse>>
    /\ UNCHANGED <<mode, priorityFeeMultiplier, currentPriorityFee, retryCount, tx,
                   blockheight, signature, connection, ctlError, receipt>>
    /\ UNCHANGED <<netVars, histVars>>
    /\ UNCHANGED libVars

\* await jupiter.executeSwap(wallet, quote)
TradeExecuteSwap ==
    /\ tradePc = "executeSwap"
    /\ ctlPc = "idle"
    /\ tradePc' = "awaitSwap"
    /\ ctlPc' = "start"
    /\ swapQuote' = quote
    /\ UNCHANGED <<req, wallet, tradeInfo, quote, tradeError, tradeResponse>>
    /\ UNCHANGED <<mode, priorityFeeMultiplier, currentPriorityFee, retryCount, tx,
                   blockheight, signature, connection, ctlError, receipt>>
    /\ UNCHANGED <<netVars, histVars>>
    /\ UNCHANGED libVars

\* the response trade() builds from executeSwap's result, or its failure
tradeResponseOf(r, info, rcpt) ==
    [base |-> info.baseToken.address,
     quote |-> info.quoteToken.address,
     amount |-> Amt(r.amount * Pow10(info.baseToken.decimals), info.baseToken.decimals),
     rawAmount |-> info.requestAmount,
     gasPrice |-> rcpt.priorityFeePrice,
     gasLimit |-> rcpt.computeUnitLimit,
     gasCost |-> Amt(rcpt.feeInLamports, 9),
     txHash |-> rcpt.signature,
     price |-> info.expectedPrice,
     expected |-> info.expectedAmount]

TradeReturn ==
    /\ tradePc = "awaitSwap"
    /\ ctlPc \in {"done", "failed"}
    /\ IF ctlPc = "done"
       THEN /\ tradePc' = "done"
            /\ tradeResponse' = tradeResponseOf(req, tradeInfo, receipt)
            /\ UNCHANGED tradeError
       ELSE /\ TradeFail(ctlError)
            /\ UNCHANGED tradeResponse
    /\ UNCHANGED <<req, wallet, tradeInfo, quote>>
    /\ UNCHANGED <<ctlVars, netVars, histVars>>
    /\ UNCHANGED libVars

(***************************************************************************)
(* The fee-escalation controller: Jupiter.executeSwap (mode "swap") and    *)
(* Solana.sendAndConfirmTransaction (mode "send").                         *)
(***************************************************************************)
\* a variant of the failure that carries on into the fee loop with a zero fee
CtlFailZeroFee(e) ==
    /\ ctlPc' = "outerLoop"
    /\ ctlError' = e
    /\ currentPriorityFee' = 0
    /\ retryCount' = 0
    /\ tx' = NoTx

\* the call ends by throwing e; its locals are gone
CtlFail(e) ==
    /\ ctlPc' = "failed"
    /\ ctlError' = e
    /\ currentPriorityFee' = 0
    /\ retryCount' = 0
    /\ tx' = NoTx

\* the fee the loop starts from
initialFee(m, pf) == IF m = "swap" THEN getGasPriceLamports(pf) - BASE_FEE ELSE pf

\* let currentPriorityFee = ... : the estimate may fail, which the controller
\* does not catch
CtlInitFee ==
    /\ ctlPc = "start"
    /\ \/ CtlFail(Err("Error", "estimatePriorityFees"))
       \/ \E pf \in EstimateValues :
             /\ currentPriorityFee' = initialFee(mode, pf)
             /\ ctlPc' = "outerLoop"
             /\ UNCHANGED <<ctlError, retryCount, tx>>
    /\ UNCHANGED <<mode, priorityFeeMultiplier, swapQuote, blockheight,
                   signature, connection, receipt>>
    /\ UNCHANGED <<tradeVars, netVars, histVars>>
    /\ UNCHANGED libVars

\* a variant of the outer loop's condition that lets one more lamport through
withinCeilingLoose(fee) == fee <= maxPriorityFee + 1

\* while (currentPriorityFee <= maxPriorityFee)
withinCeiling(fee) == fee <= maxPriorityFee

\* the loop condition fails: throw new Error("... maximum priority fee ...")
CtlCeilingExceeded ==
    /\ ctlPc = "outerLoop"
    /\ ~withinCeiling(currentPriorityFee)
    /\ CtlFail(Err("Error", "maximumPriorityFee"))
    /\ UNCHANGED <<mode, priorityFeeMultiplier, swapQuote, blockheight, signature,
                   connection, receipt>>
    /\ UNCHANGED <<tradeVars, netVars, histVars>>
    /\ UNCHANGED libVars

\* the validity ceilings a transaction built now may get: the current height
\* plus the network's validity window
ValidityWindows == {1}
freshCeilings == { height + w : w \in ValidityWindows }

\* getSwapObj: prioritizationFeeLamports = priorityFee ? priorityFee : minPriorityFee
swapFee(priorityFee) == IF priorityFee # 0 THEN priorityFee ELSE minPriorityFee

\* the fee instruction of sendAndConfirmTransaction: Math.floor(currentPriorityFee)
sendFee(priorityFee) == priorityFee

\* a variant of the pass that notes a simulation error and goes on to sign
\* and broadcast
CtlBuildSwapIgnoringSimulation ==
    /\ ctlPc = "outerLoop"
    /\ mode = "swap"
    /\ withinCeiling(currentPriorityFee)
    /\ built' = TRUE
    /\ \/ CtlFail(Err("SWAP_ROUTE_FETCH_ERROR_CODE", "swapPost"))
       \/ /\ \E c \in freshCeilings :
                tx' = [fee |-> swapFee(currentPriorityFee), lastValidBlockHeight |-> c]
          /\ \E simulated \in {NoError, Err("SIMULATION_ERROR_CODE", "simulateTransaction")} :
                ctlError' = simulated
          /\ retryCount' = 0
          /\ ctlPc' = "innerLoop"
          /\ UNCHANGED currentPriorityFee
    /\ UNCHANGED <<mode, priorityFeeMultiplier, swapQuote, blockheight,
                   signature, connection, receipt>>
    /\ UNCHANGED <<tradeVars, netVars>>
    /\ UNCHANGED <<lastSent, prevSent, lastRound, accepted, failedSeen, quoteRequested,
                   balanceQueried, polledConfirmed>>
    /\ UNCHANGED libVars

\* executeSwap, one pass of the outer loop up to the inner loop: getSwapObj
\* (five attempts, then SWAP_ROUTE_FETCH), deserialize, simulate, sign
CtlBuildSwap ==
    /\ ctlPc = "outerLoop"
    /\ mode = "swap"
    /\ withinCeiling(currentPriorityFee)
    /\ built' = TRUE
    /\ \/ CtlFail(Err("SWAP_ROUTE_FETCH_ERROR_CODE", "swapPost"))
       \/ CtlFail(Err("SIMULATION_ERROR_CODE", "simulateTransaction"))
       \/ /\ \E c \in freshCeilings :
                tx' = [fee |-> swapFee(currentPriorityFee), lastValidBlockHeight |-> c]
          /\ retryCount' = 0
          /\ ctlPc' = "innerLoop"
          /\ UNCHANGED <<ctlError, currentPriorityFee>>
    /\ UNCHANGED <<mode, priorityFeeMultiplier, swapQuote, blockheight,
                   signature, connection, receipt>>
    /\ UNCHANGED <<tradeVars, netVars>>
    /\ UNCHANGED <<lastSent, prevSent, lastRound, accepted, failedSeen, quoteRequested,
                   balanceQueried, polledConfirmed>>
    /\ UNCHANGED libVars

\* a variant of the pass that fetches validity bounds for the first
\* transaction only and signs the later ones with those
CtlPrepareTxStaleBounds ==
    /\ ctlPc = "outerLoop"
    /\ mode = "send"
    /\ withinCeiling(currentPriorityFee)
    /\ \/ CtlFail(Err("Error", "getLatestBlockhashAndContext"))
       \/ /\ \E c \in freshCeilings :
                tx' = [fee |-> sendFee(currentPriorityFee),
                       lastValidBlockHeight |-> IF tx = NoTx THEN c
                                                ELSE tx.lastValidBlockHeight]
          /\ retryCount' = 0
          /\ ctlPc' = "innerLoop"
          /\ UNCHANGED <<ctlError, currentPriorityFee>>
    /\ UNCHANGED <<mode, priorityFeeMultiplier, swapQuote, blockheight,
                   signature, connection, receipt>>
    /\ UNCHANGED <<tradeVars, netVars, histVars>>
    /\ UNCHANGED libVars

\* a variant of the pass that carries the retry counter over from the
\* previous fee level
CtlPrepareTxKeepCount ==
    /\ ctlPc = "outerLoop"
    /\ mode = "send"
    /\ withinCeiling(currentPriorityFee)
    /\ \/ CtlFail(Err("Error", "getLatestBlockhashAndContext"))
       \/ /\ \E c \in freshCeilings :
                tx' = [fee |-> sendFee(currentPriorityFee), lastValidBlockHeight |-> c]
          /\ ctlPc' = "innerLoop"
          /\ UNCHANGED <<ctlError, currentPriorityFee, retryCount>>
    /\ UNCHANGED <<mode, priorityFeeMultiplier, swapQuote, blockheight,
                   signature, connection, receipt>>
    /\ UNCHANGED <<tradeVars, netVars, histVars>>
    /\ UNCHANGED libVars

\* sendAndConfirmTransaction, one pass of the outer loop up to the inner
\* loop: fee instruction, latest blockhash (not caught when it fails), sign
CtlPrepareTx ==
    /\ ctlPc = "outerLoop"
    /\ mode = "send"
    /\ withinCeiling(currentPriorityFee)
    /\ \/ CtlFail(Err("Error", "getLatestBlockhashAndContext"))
       \/ /\ \E c \in freshCeilings :
                tx' = [fee |-> sendFee(currentPriorityFee), lastValidBlockHeight |-> c]
          /\ retryCount' = 0
          /\ ctlPc' = "innerLoop"
          /\ UNCHANGED <<ctlError, currentPriorityFee>>
    /\ UNCHANGED <<mode, priorityFeeMultiplier, swapQuote, blockheight,
                   signature, connection, receipt>>
    /\ UNCHANGED <<tradeVars, netVars, histVars>>
    /\ UNCHANGED libVars

\* a variant of the inner loop's condition that gives up one round early
moreRetriesShort(n) == n < chainRetryCount - 1

\* while (retryCount < this.retryCount)
moreRetries(n) == n < chainRetryCount

\* sendRawTransaction, up to its loop: read the block height once; a failure
\* of that read is caught by the controller, which counts a retry
SendRawStart ==
    /\ ctlPc = "innerLoop"
    /\ moreRetries(retryCount)
    /\ \/ /\ blockheight' = height
          /\ ctlPc' = "rawLoop"
          /\ UNCHANGED retryCount
       \/ /\ retryCount' = retryCount + 1
          /\ UNCHANGED <<blockheight, ctlPc>>
    /\ polledConfirmed' = FALSE
    /\ UNCHANGED <<mode, priorityFeeMultiplier, swapQuote, currentPriorityFee, tx,
                   signature, connection, ctlError, receipt>>
    /\ UNCHANGED <<tradeVars, netVars>>
    /\ UNCHANGED <<lastSent, prevSent, lastRound, accepted, failedSeen, built, quoteRequested,
                   balanceQueried>>
    /\ UNCHANGED libVars

\* while (blockheight <= lastValidBlockHeight + 50)
withinHeight(bh, lastValid) == bh <= lastValid + HEIGHT_TOLERANCE

\* the identifiers of the fulfilled submissions, in pool order, '' filtered
RECURSIVE signaturesOf(_, _)
signaturesOf(replies, e) ==
    IF e > NumEndpoints THEN << >>
    ELSE IF replies[e] # Rejected /\ replies[e] # ""
         THEN <<replies[e]>> \o signaturesOf(replies, e + 1)
         ELSE signaturesOf(replies, e + 1)

\* a variant of the agreement test that takes any identifiers for agreeing
allMatchAny(signatures) == TRUE

\* signatures.every((sig) => sig === signatures[0])
allMatch(signatures) == \A i \in 1..Len(signatures) : signatures[i] = signatures[1]

\* what one round of sendRawTransaction's loop does with the settled results:
\* the identifier it returns, or "" when it waits and loops
roundResult(replies) ==
    LET signatures == signaturesOf(replies, 1)
    IN  IF \E e \in Endpoints : replies[e] # Rejected
        THEN IF allMatch(signatures) THEN signatures[1] ELSE ""
        ELSE ""

\* one round of sendRawTransaction's loop: fan out to all endpoints, settle
SendRawRound ==
    /\ ctlPc = "rawLoop"
    /\ withinHeight(blockheight, tx.lastValidBlockHeight)
    /\ \E replies \in [Endpoints -> Replies] :
          /\ lastRound' = [accepted |-> { replies[e] : e \in Endpoints } \ {Rejected},
                           rejected |-> (\E e \in Endpoints : replies[e] = Rejected),
                           at |-> height]
          /\ IF roundResult(replies) # ""
             THEN /\ signature' = roundResult(replies)
                  /\ blockheight' = 0
                  /\ ctlPc' = "confirm"
             ELSE UNCHANGED <<signature, blockheight, ctlPc>>
    /\ lastSent' = tx
    /\ prevSent' = IF lastSent \notin {NoTx, tx} THEN lastSent ELSE prevSent
    /\ UNCHANGED <<mode, priorityFeeMultiplier, swapQuote, currentPriorityFee, retryCount,
                   tx, connection, ctlError, receipt>>
    /\ UNCHANGED <<tradeVars, netVars>>
    /\ UNCHANGED <<accepted, failedSeen, built, quoteRequested, balanceQueried,
                   polledConfirmed>>
    /\ UNCHANGED libVars

\* the loop condition fails: throw new Error('Maximum blockheight exceeded'),
\* caught by the controller, which counts a retry
SendRawExceeded ==
    /\ ctlPc = "rawLoop"
    /\ ~withinHeight(blockheight, tx.lastValidBlockHeight)
    /\ retryCount' = retryCount + 1
    /\ blockheight' = 0
    /\ ctlPc' = "innerLoop"
    /\ UNCHANGED <<mode, priorityFeeMultiplier, swapQuote, currentPriorityFee, tx,
                   signature, connection, ctlError, receipt>>
    /\ UNCHANGED <<tradeVars, netVars, histVars>>
    /\ UNCHANGED libVars

\* a variant of confirmTransaction that looks at the confirmation status
\* before it looks at err
confirmTransactionStatusFirst(answer, txData) ==
    IF answer.kind = "timeout" THEN [throws |-> TRUE, cause |-> "timeout"]
    ELSE IF answer.kind = "httpError" THEN [throws |-> TRUE, cause |-> "http"]
    ELSE IF answer.status = Null
         THEN [throws |-> FALSE, confirmed |-> FALSE, txData |-> Undefined]
    ELSE IF answer.status.confirmationStatus \in {"confirmed", "finalized"}
         THEN [throws |-> FALSE, confirmed |-> TRUE, txData |-> txData]
    ELSE IF answer.status.err # Null THEN [throws |-> TRUE, cause |-> "failed"]
    ELSE [throws |-> FALSE, confirmed |-> FALSE, txData |-> Undefined]

\* confirmTransaction: what it returns, or that it throws, for an endpoint's
\* answer and the transaction detail getParsedTransaction gives
confirmTransaction(answer, txData) ==
    IF answer.kind = "timeout" THEN [throws |-> TRUE, cause |-> "timeout"]
    ELSE IF answer.kind = "httpError" THEN [throws |-> TRUE, cause |-> "http"]
    ELSE IF answer.status = Null
         THEN [throws |-> FALSE, confirmed |-> FALSE, txData |-> Undefined]
    ELSE IF answer.status.err # Null THEN [throws |-> TRUE, cause |-> "failed"]
    ELSE IF answer.status.confirmationStatus \in {"confirmed", "finalized"}
         THEN [throws |-> FALSE, confirmed |-> TRUE, txData |-> txData]
    ELSE [throws |-> FALSE, confirmed |-> FALSE, txData |-> Undefined]

\* the test that ends the controller with success:
\* executeSwap: if (confirmed && txData); sendAndConfirmTransaction:
\* if (confirmed), where confirmed is the whole result object
accepts(m, result) ==
    IF m = "swap"
    THEN result.confirmed /\ result.txData # Null /\ result.txData # Undefined
    ELSE TRUE

\* a variant of the receipt that reports the estimate the swap was built
\* with instead of the confirmed transaction's data
receiptFromEstimate(m, sig, txData) ==
    IF m = "swap"
    THEN [signature |-> sig,
          feeInLamports |-> getGasPriceLamports(tradeInfo.gasEstimate.gasPrice),
          computeUnitLimit |-> tradeInfo.gasEstimate.gasLimit,
          priorityFeePrice |-> tradeInfo.gasEstimate.gasPrice]
    ELSE [signature |-> sig]

\* what executeSwap returns from the confirmed transaction's data
receiptOf(m, sig, txData) ==
    IF m = "swap"
    THEN [signature |-> sig,
          feeInLamports |-> txData.fee,
          computeUnitLimit |-> txData.computeUnitsConsumed,
          priorityFeePrice |-> ((txData.fee - BASE_FEE) * MICRO_PER_UNIT)
                                   \div txData.computeUnitsConsumed]
    ELSE [signature |-> sig]

\* an endpoint reported the identifier Confirmed / failed on chain
reportsConfirmed(answer) ==
    /\ answer.kind = "ok"
    /\ answer.status # Null
    /\ answer.status.err = Null
    /\ answer.status.confirmationStatus \in {"confirmed", "finalized"}

reportsFailed(answer) ==
    /\ answer.kind = "ok"
    /\ answer.status # Null
    /\ answer.status.err # Null

\* one pass of the for loop over the pool's connections: poll one endpoint;
\* after the last one, count a retry and wait.  A return ends the call and
\* its locals.
CtlConfirm ==
    /\ ctlPc = "confirm"
    /\ \E answer \in StatusAnswers :
       \E txData \in IF reportsConfirmed(answer) THEN TxDatas \cup {Null} ELSE {Null} :
          LET result == confirmTransaction(answer, txData)
          IN  /\ failedSeen' = (failedSeen \/ reportsFailed(answer))
              /\ polledConfirmed' = reportsConfirmed(answer)
              /\ IF ~result.throws /\ accepts(mode, result)
                 THEN /\ receipt' = receiptOf(mode, signature, result.txData)
                      /\ accepted' = [signature |-> signature,
                                      confirmed |-> reportsConfirmed(answer),
                                      txData |-> txData]
                      /\ ctlPc' = "done"
                      /\ signature' = ""
                      /\ connection' = 1
                      /\ currentPriorityFee' = 0
                      /\ retryCount' = 0
                      /\ tx' = NoTx
                 ELSE /\ UNCHANGED <<receipt, accepted, currentPriorityFee, tx>>
                      /\ IF connection < NumEndpoints
                         THEN /\ connection' = connection + 1
                              /\ UNCHANGED <<signature, ctlPc, retryCount>>
                         ELSE /\ retryCount' = retryCount + 1
                              /\ signature' = ""
                              /\ connection' = 1
                              /\ ctlPc' = "innerLoop"
    /\ lastRound' = NoRound
    /\ UNCHANGED <<mode, priorityFeeMultiplier, swapQuote, blockheight, ctlError>>
    /\ UNCHANGED <<tradeVars, netVars>>
    /\ UNCHANGED <<lastSent, prevSent, built, quoteRequested, balanceQueried>>
    /\ UNCHANGED libVars

\* currentPriorityFee = Math.floor(currentPriorityFee * priorityFeeMultiplier)
escalate(fee, m) == (fee * m.num) \div m.den

\* the inner loop is exhausted: raise the fee and go round the outer loop
CtlEscalate ==
    /\ ctlPc = "innerLoop"
    /\ ~moreRetries(retryCount)
    /\ currentPriorityFee' = escalate(currentPriorityFee, priorityFeeMultiplier)
    /\ ctlPc' = "outerLoop"
    /\ polledConfirmed' = FALSE
    /\ UNCHANGED <<mode, priorityFeeMultiplier, swapQuote, retryCount, tx, blockheight,
                   signature, connection, ctlError, receipt>>
    /\ UNCHANGED <<tradeVars, netVars>>
    /\ UNCHANGED <<lastSent, prevSent, lastRound, accepted, failedSeen, built, quoteRequested,
                   balanceQueried>>
    /\ UNCHANGED libVars

\* the fee loop when every round at every fee ends unconfirmed: a pass of
\* the outer loop at a fee within the ceiling ends in the escalation
EscalationPass ==
    /\ unit = "escalation"
    /\ ~escalation.failed
    /\ escalation.steps < MaxEscalations
    /\ withinCeiling(escalation.fee)
    /\ escalation' = [escalation EXCEPT
                         !.fee = escalate(escalation.fee, escalation.multiplier),
                         !.steps = escalation.steps + 1]
    /\ UNCHANGED <<unit, confirmCall, estVars, poolVars, priceCall, resolverVars,
                   formatCall, balancesCall, fanout, phases, race, instance>>
    /\ UNCHANGED mainVars

\* the outer loop's condition fails and the call throws
EscalationCeiling ==
    /\ unit = "escalation"
    /\ ~escalation.failed
    /\ ~withinCeiling(escalation.fee)
    /\ escalation' = [escalation EXCEPT !.failed = TRUE]
    /\ UNCHANGED <<unit, confirmCall, estVars, poolVars, priceCall, resolverVars,
                   formatCall, balancesCall, fanout, phases, race, instance>>
    /\ UNCHANGED mainVars

(***************************************************************************)
(* The network's block height advances while a controller call runs: by    *)
(* one block, or by a pause longer than any validity window plus the       *)
(* tolerance.  The controller reads the height when it builds a            *)
(* transaction, when sendRawTransaction starts and (for the history) when  *)
(* a round is broadcast, so it is enough to let time pass between the      *)
(* build and the rounds.                                                   *)
(***************************************************************************)
TickSteps == {1} \cup { w + HEIGHT_TOLERANCE + 1 : w \in ValidityWindows }

Tick ==
    /\ ctlPc \in {"innerLoop", "rawLoop"}
    /\ ticks < MaxTicks
    /\ \E d \in TickSteps : height' = height + d
    /\ ticks' = ticks + 1
    /\ UNCHANGED <<tradeVars, ctlVars, histVars>>
    /\ UNCHANGED libVars

(***************************************************************************)
(* confirmTransaction called on its own.                                   *)
(***************************************************************************)
ConfirmCall ==
    /\ unit = "confirm"
    /\ \E answer \in StatusAnswers :
       \E txData \in IF reportsConfirmed(answer) THEN TxDatas \cup {Null} ELSE {Null} :
          confirmCall' = [answer |-> answer, txData |-> txData,
                          result |-> confirmTransaction(answer, txData)]
    /\ UNCHANGED <<unit, estVars, poolVars, priceCall, resolverVars, formatCall, escalation, balancesCall, fanout, phases, race, instance>>
    /\ UNCHANGED mainVars

(***************************************************************************)
(* estimatePriorityFees and its static cache.                              *)
(***************************************************************************)
\* what getRecentPrioritizationFees may answer: the prioritizationFee of each
\* entry of data.result
SampleSets == { << >>, <<0, 0>>, <<1>>, <<0, 5>>, <<5, 1, 3>> }

\* lastPriorityFeeEstimate && Date.now() - timestamp < PRIORITY_FEE_CACHE_MS
cacheValid(cache, t) ==
    cache # Null /\ t - cache.timestamp < PRIORITY_FEE_CACHE_MS

\* minPriorityFee / defaultComputeUnits * 1_000_000 (the configured values
\* divide exactly)
minimumFee == (minPriorityFee * MICRO_PER_UNIT) \div defaultComputeUnits

\* .filter((fee) => fee > 0)
nonZero(samples) == SelectSeq(samples, LAMBDA fee : fee > 0)

\* a variant of the estimate without the floor at the minimum fee
feeOfSamplesUnfloored(samples, percentile) ==
    LET fees == SortSeq(nonZero(samples), LAMBDA a, b : a < b)
        percentileIndex == (Len(fees) * percentile.num + percentile.den - 1)
                              \div percentile.den
    IN  IF Len(fees) = 0 THEN minimumFee ELSE fees[percentileIndex]

\* a variant of the estimate that rounds the percentile index down
feeOfSamplesIndexDown(samples, percentile) ==
    LET fees == SortSeq(nonZero(samples), LAMBDA a, b : a < b)
        down == (Len(fees) * percentile.num) \div percentile.den
        percentileIndex == IF down < 1 THEN 1 ELSE down
    IN  IF Len(fees) = 0 THEN minimumFee
        ELSE IF fees[percentileIndex] > minimumFee THEN fees[percentileIndex]
        ELSE minimumFee

\* a variant of the estimate that answers zero when no sample is left
feeOfSamplesZero(samples, percentile) ==
    LET fees == SortSeq(nonZero(samples), LAMBDA a, b : a < b)
        percentileIndex == (Len(fees) * percentile.num + percentile.den - 1)
                              \div percentile.den
    IN  IF Len(fees) = 0 THEN 0
        ELSE IF fees[percentileIndex] > minimumFee THEN fees[percentileIndex]
        ELSE minimumFee

\* what a call returns for the samples it fetched: the minimum fee when no
\* sample is left, else fees[Math.ceil(fees.length * percentile) - 1] of the
\* ascending fees, not below the minimum fee
feeOfSamples(samples, percentile) ==
    LET fees == SortSeq(nonZero(samples), LAMBDA a, b : a < b)
        percentileIndex == (Len(fees) * percentile.num + percentile.den - 1)
                              \div percentile.den
    IN  IF Len(fees) = 0 THEN minimumFee
        ELSE IF fees[percentileIndex] > minimumFee THEN fees[percentileIndex]
        ELSE minimumFee

\* a call starts: the cache check; a valid cache is returned at once,
\* otherwise the query goes out
EstimateStart ==
    /\ unit = "estimator"
    /\ estPc = "idle"
    /\ estCount < MaxCalls
    /\ estCount' = estCount + 1
    /\ estPrev' = estCall
    /\ IF cacheValid(lastPriorityFeeEstimate, now)
       THEN /\ estCall' = [started |-> now, completed |-> now, queried |-> FALSE,
                           received |-> FALSE, samples |-> << >>,
                           outcome |-> [value |-> lastPriorityFeeEstimate.fee]]
            /\ UNCHANGED estPc
       ELSE /\ estCall' = [started |-> now, completed |-> -1, queried |-> TRUE,
                           received |-> FALSE, samples |-> << >>,
                           outcome |-> Null]
            /\ estPc' = "fetching"
    /\ UNCHANGED <<priorityFeePercentile, lastPriorityFeeEstimate, now, clockTicks>>
    /\ UNCHANGED <<unit, confirmCall, poolVars, priceCall, resolverVars, formatCall, escalation, balancesCall, fanout, phases, race, instance>>
    /\ UNCHANGED mainVars

\* the query is answered: a network error, a non-OK response or a body
\* without result makes the call throw; samples are turned into the fee,
\* which is cached when a non-zero sample was among them
EstimateFetched ==
    /\ unit = "estimator"
    /\ estPc = "fetching"
    /\ estPc' = "idle"
    /\ \/ /\ estCall' = [estCall EXCEPT !.completed = now,
                                         !.outcome = [error |-> "fetch"]]
          /\ UNCHANGED lastPriorityFeeEstimate
       \/ \E samples \in SampleSets :
             LET fee == feeOfSamples(samples, priorityFeePercentile)
             IN  /\ estCall' = [estCall EXCEPT !.completed = now,
                                               !.received = TRUE,
                                               !.samples = samples,
                                               !.outcome = [value |-> fee]]
                 /\ lastPriorityFeeEstimate' =
                       IF Len(nonZero(samples)) = 0 THEN lastPriorityFeeEstimate
                       ELSE [timestamp |-> now, fee |-> fee]
    /\ UNCHANGED <<priorityFeePercentile, now, clockTicks, estPrev, estCount>>
    /\ UNCHANGED <<unit, confirmCall, poolVars, priceCall, resolverVars, formatCall, escalation, balancesCall, fanout, phases, race, instance>>
    /\ UNCHANGED mainVars

\* Date.now() advances: by a millisecond, or by all but a millisecond of the
\* cache window
ClockSteps == {1, PRIORITY_FEE_CACHE_MS - 1}

ClockTick ==
    /\ unit = "estimator"
    /\ clockTicks < MaxClockTicks
    /\ clockTicks' = clockTicks + 1
    /\ \E d \in ClockSteps : now' = now + d
    /\ UNCHANGED <<priorityFeePercentile, lastPriorityFeeEstimate, estPc, estCall,
                   estPrev, estCount>>
    /\ UNCHANGED <<unit, confirmCall, poolVars, priceCall, resolverVars, formatCall, escalation, balancesCall, fanout, phases, race, instance>>
    /\ UNCHANGED mainVars

(***************************************************************************)
(* ConnectionPool. Its methods are synchronous, so calls from different    *)
(* requests in flight interleave as whole calls.                           *)
(***************************************************************************)
Requesters == 1..MaxRequesters

\* a variant of the index update that does not wrap
nextIndexNoWrap(index, length) == index + 1

\* (this.currentIndex + 1) % this.connections.length
nextIndex(index, length) == (index + 1) % length

getNextConnection ==
    /\ unit = "pool"
    /\ poolCalls < MaxPoolCalls
    /\ \E requester \in Requesters :
          poolLast' = [op |-> "getNextConnection", requester |-> requester,
                       call |-> poolCalls, indexBefore |-> currentIndex,
                       returned |-> <<connections[currentIndex]>>]
    /\ currentIndex' = nextIndex(currentIndex, Cardinality(DOMAIN connections))
    /\ poolCalls' = poolCalls + 1
    /\ UNCHANGED connections
    /\ UNCHANGED <<unit, confirmCall, estVars, priceCall, resolverVars, formatCall, escalation, balancesCall, fanout, phases, race, instance>>
    /\ UNCHANGED mainVars

getAllConnections ==
    /\ unit = "pool"
    /\ \E requester \in Requesters :
          poolLast' = [op |-> "getAllConnections", requester |-> requester,
                       call |-> poolCalls, indexBefore |-> currentIndex,
                       returned |-> [i \in 1..Cardinality(DOMAIN connections)
                                        |-> connections[i - 1]]]
    /\ UNCHANGED <<connections, currentIndex, poolCalls>>
    /\ UNCHANGED <<unit, confirmCall, estVars, priceCall, resolverVars, formatCall, escalation, balancesCall, fanout, phases, race, instance>>
    /\ UNCHANGED mainVars

(***************************************************************************)
(* getTokenBySymbol                                                        *)
(***************************************************************************)
\* a variant of the lookup that returns the first matching entry
getTokenBySymbolFirst(list, tokenSymbol) ==
    LET matches == { i \in 1..Len(list) :
                       toUpperCase(list[i].symbol) = toUpperCase(tokenSymbol) }
    IN  IF matches = {} THEN Undefined
        ELSE list[CHOOSE i \in matches : \A j \in matches : i <= j]

\* for (let i = length - 1; i >= 0; i--) if (symbols match in upper case)
\* return tokenList[i]; return undefined
RECURSIVE scanBack(_, _, _)
scanBack(list, tokenSymbol, i) ==
    IF i < 1 THEN Undefined
    ELSE IF toUpperCase(list[i].symbol) = toUpperCase(tokenSymbol) THEN list[i]
    ELSE scanBack(list, tokenSymbol, i - 1)

getTokenBySymbol(list, tokenSymbol) == scanBack(list, tokenSymbol, Len(list))

SymbolCall ==
    /\ unit = "resolver"
    /\ \E tokenSymbol \in LookupSymbols :
          symbolCall' = [tokenSymbol |-> tokenSymbol,
                         result |-> getTokenBySymbol(tokenList, tokenSymbol)]
    /\ UNCHANGED tokenList
    /\ UNCHANGED <<unit, confirmCall, estVars, poolVars, priceCall, formatCall, escalation, balancesCall, fanout, phases, race, instance>>
    /\ UNCHANGED mainVars

(***************************************************************************)
(* The amount fields of price()'s response.  The amounts used are integers *)
(* whose product with 10^decimals is a JavaScript number without rounding, *)
(* so the number is held as digits * 10^zeros.                             *)
(***************************************************************************)
RECURSIVE digitCount(_)
digitCount(n) == IF n < 10 THEN 1 ELSE 1 + digitCount(n \div 10)

\* Math.floor(amount * DECIMAL_MULTIPLIER ** baseToken.decimals)
requestAmountOf(amount, decimals) ==
    [digits |-> amount.digits, zeros |-> amount.zeros + decimals]

\* Number.prototype.toString of a non-negative integer: its decimal digits
\* while it is below 10^21, exponent notation from there on
numberToString(n) ==
    IF digitCount(n.digits) + n.zeros <= 21
    THEN [notation |-> "decimal", digits |-> n.digits, zeros |-> n.zeros]
    ELSE [notation |-> "exponent", digits |-> n.digits,
          exponent |-> digitCount(n.digits) + n.zeros - 1]

\* new Decimal(amount).toFixed(dp) of an integer: its digits, a point when
\* dp > 0, and dp zeros
toFixed(amount, dp) ==
    [notation |-> "fixed", digits |-> amount.digits, zeros |-> amount.zeros,
     fractionDigits |-> dp]

PriceAmounts ==
    /\ unit = "format"
    /\ \E amount \in FormatAmounts, decimals \in FormatDecimals :
          formatCall' = [reqAmount |-> amount, decimals |-> decimals,
                         amount |-> toFixed(amount, decimals),
                         rawAmount |-> numberToString(requestAmountOf(amount, decimals))]
    /\ UNCHANGED <<unit, confirmCall, estVars, poolVars, priceCall, resolverVars, escalation, balancesCall, fanout, phases, race, instance>>
    /\ UNCHANGED mainVars

(***************************************************************************)
(* estimatePriorityFees under concurrent callers.  Each caller runs the    *)
(* synchronous stretches of the function as one step: the cache check up   *)
(* to the fetch, and everything after the response up to the return.       *)
(***************************************************************************)
Racers == 1..MaxRacers

\* the chain instance each caller calls on: Solana.getInstance(network) keeps
\* one instance per network name, and the cache slot is a static member, one
\* for all of them
networkOf(r) == IF r % 2 = 1 THEN "mainnet-beta" ELSE "devnet"

\* the cache check; a valid slot is returned at once, else the query goes out
RaceStart ==
    /\ unit = "race"
    /\ \E r \in Racers :
          /\ race.calls[r].pc = "idle"
          /\ IF cacheValid(race.cache, race.now)
             THEN race' = [race EXCEPT
                              !.calls[r] = [pc |-> "done", queried |-> FALSE,
                                            returned |-> [value |-> race.cache.fee],
                                            wrote |-> Null]]
             ELSE race' = [race EXCEPT !.calls[r].pc = "fetching",
                                       !.calls[r].queried = TRUE]
    /\ UNCHANGED <<unit, confirmCall, estVars, poolVars, priceCall, resolverVars, formatCall,
                   escalation, balancesCall, fanout, phases, instance>>
    /\ UNCHANGED mainVars

\* a variant of the completion that updates the slot field by field and
\* leaves the fee of the entry already there
RaceFetchedTornWrite ==
    /\ unit = "race"
    /\ \E r \in Racers, samples \in SampleSets :
          LET fee == feeOfSamples(samples, priorityFeePercentile)
              entry == [timestamp |-> race.now, fee |-> fee]
          IN  /\ race.calls[r].pc = "fetching"
              /\ Len(nonZero(samples)) > 0
              /\ race' = [race EXCEPT
                              !.cache = IF race.cache = Null THEN entry
                                        ELSE [timestamp |-> race.now,
                                              fee |-> race.cache.fee],
                              !.calls[r] = [pc |-> "done", queried |-> TRUE,
                                            returned |-> [value |-> fee],
                                            wrote |-> entry]]
    /\ UNCHANGED <<unit, confirmCall, estVars, poolVars, priceCall, resolverVars, formatCall,
                   escalation, balancesCall, fanout, phases, instance>>
    /\ UNCHANGED mainVars

\* the response arrives: the call throws, or returns the minimum fee without
\* writing, or assigns { timestamp: Date.now(), fee } to the slot and returns
\* that fee
RaceFetched ==
    /\ unit = "race"
    /\ \E r \in Racers :
          /\ race.calls[r].pc = "fetching"
          /\ \/ race' = [race EXCEPT
                             !.calls[r] = [pc |-> "done", queried |-> TRUE,
                                           returned |-> [error |-> "fetch"],
                                           wrote |-> Null]]
             \/ \E samples \in SampleSets :
                   LET fee == feeOfSamples(samples, priorityFeePercentile)
                       entry == [timestamp |-> race.now, fee |-> fee]
                   IN  IF Len(nonZero(samples)) = 0
                       THEN race' = [race EXCEPT
                                        !.calls[r] = [pc |-> "done", queried |-> TRUE,
                                                      returned |-> [value |-> fee],
                                                      wrote |-> Null]]
                       ELSE race' = [race EXCEPT
                                        !.cache = entry,
                                        !.calls[r] = [pc |-> "done", queried |-> TRUE,
                                                      returned |-> [value |-> fee],
                                                      wrote |-> entry]]
    /\ UNCHANGED <<unit, confirmCall, estVars, poolVars, priceCall, resolverVars, formatCall,
                   escalation, balancesCall, fanout, phases, instance>>
    /\ UNCHANGED mainVars

\* Date.now() advances while calls are in flight
RaceTick ==
    /\ unit = "race"
    /\ race.now < MaxRaceTicks
    /\ race' = [race EXCEPT !.now = race.now + 1]
    /\ UNCHANGED <<unit, confirmCall, estVars, poolVars, priceCall, resolverVars, formatCall,
                   escalation, balancesCall, fanout, phases, instance>>
    /\ UNCHANGED mainVars

(***************************************************************************)
(* Solana.init() called by several callers on one instance.                *)
(***************************************************************************)
\* init() up to its first await: when the instance is neither ready nor
\* initializing the call sets initializing and starts loadTokens; otherwise
\* the if is skipped and the call completes
InitCall ==
    /\ unit = "init"
    /\ \E c \in 1..MaxInitCalls :
          /\ instance.calls[c].pc = "idle"
          /\ IF ~instance.ready /\ ~instance.initializing
             THEN instance' = [instance EXCEPT !.initializing = TRUE,
                                               !.calls[c].pc = "loading"]
             ELSE instance' = [instance EXCEPT
                                  !.calls[c] = [pc |-> "completed",
                                                readyAtEnd |-> instance.ready,
                                                loadedAtEnd |-> instance.tokensLoaded]]
    /\ UNCHANGED <<unit, confirmCall, estVars, poolVars, priceCall, resolverVars, formatCall,
                   escalation, balancesCall, fanout, phases, race>>
    /\ UNCHANGED mainVars

\* loadTokens settles: the maps are filled and _ready is set, or the error
\* is rethrown; finally initializing is cleared
InitLoaded ==
    /\ unit = "init"
    /\ \E c \in 1..MaxInitCalls, loaded \in BOOLEAN :
          /\ instance.calls[c].pc = "loading"
          /\ IF loaded
             THEN instance' = [instance EXCEPT
                                  !.tokensLoaded = TRUE,
                                  !.ready = TRUE,
                                  !.initializing = FALSE,
                                  !.calls[c] = [pc |-> "completed", readyAtEnd |-> TRUE,
                                                loadedAtEnd |-> TRUE]]
             ELSE instance' = [instance EXCEPT
                                  !.initializing = FALSE,
                                  !.calls[c].pc = "threw"]
    /\ UNCHANGED <<unit, confirmCall, estVars, poolVars, priceCall, resolverVars, formatCall,
                   escalation, balancesCall, fanout, phases, race>>
    /\ UNCHANGED mainVars

(***************************************************************************)
(* The requests of one round, endpoint by endpoint.                        *)
(***************************************************************************)
\* sendRawTransaction: getAllConnections().map(async (conn) => ...) calls
\* every endpoint before Promise.allSettled awaits any of them
BroadcastFanOut ==
    /\ unit = "fanout"
    /\ fanout.round = "broadcast"
    /\ fanout.issued = {}
    /\ fanout' = [fanout EXCEPT !.issued = Endpoints]
    /\ UNCHANGED <<unit, confirmCall, estVars, poolVars, priceCall, resolverVars, formatCall,
                   escalation, balancesCall, phases, race, instance>>
    /\ UNCHANGED mainVars

\* the controllers' for (const connection of getAllConnections()) { await
\* confirmTransaction(signature, connection) ... }: the next endpoint is
\* polled once the poll of the one before it has settled
ConfirmNext ==
    /\ unit = "fanout"
    /\ fanout.round = "confirm"
    /\ ~fanout.over
    /\ fanout.issued = fanout.settled
    /\ fanout.issued # Endpoints
    /\ LET e == CHOOSE x \in Endpoints \ fanout.issued :
                    \A y \in Endpoints \ fanout.issued : x <= y
       IN  fanout' = [fanout EXCEPT !.issued = fanout.issued \cup {e}]
    /\ UNCHANGED <<unit, confirmCall, estVars, poolVars, priceCall, resolverVars, formatCall,
                   escalation, balancesCall, phases, race, instance>>
    /\ UNCHANGED mainVars

\* a request settles.  A broadcast round is over when all have settled; a
\* confirmation round returns on the first accepted result, else it is over
\* after the last endpoint
EndpointSettles ==
    /\ unit = "fanout"
    /\ ~fanout.over
    /\ \E e \in fanout.issued \ fanout.settled, returns \in BOOLEAN :
          LET settled == fanout.settled \cup {e}
          IN  fanout' = [fanout EXCEPT
                            !.settled = settled,
                            !.over = \/ settled = Endpoints
                                     \/ fanout.round = "confirm" /\ returns]
    /\ UNCHANGED <<unit, confirmCall, estVars, poolVars, priceCall, resolverVars, formatCall,
                   escalation, balancesCall, phases, race, instance>>
    /\ UNCHANGED mainVars

(***************************************************************************)
(* The phases of a controller call and the status requests it leaves       *)
(* behind: confirmTransaction races the request against a timer and does   *)
(* not cancel the request when the timer wins.                             *)
(***************************************************************************)
MaxPhaseEscalations == 1

\* await sendRawTransaction(...) returned an identifier
PhaseBroadcast ==
    /\ unit = "phases"
    /\ phases.pc = "broadcast"
    /\ phases' = [phases EXCEPT !.pc = "confirm", !.connection = 1]
    /\ UNCHANGED <<unit, confirmCall, estVars, poolVars, priceCall, resolverVars, formatCall,
                   escalation, balancesCall, fanout, race, instance>>
    /\ UNCHANGED mainVars

\* await confirmTransaction(signature, connection) inside the for loop:
\* Promise.race settles with the request's result or with the timer's
\* rejection; in the second case the fetch goes on unobserved.  After the
\* last endpoint: retryCount++, then the inner loop's condition
PhasePoll ==
    /\ unit = "phases"
    /\ phases.pc = "confirm"
    /\ \E outcome \in {"confirmed", "unconfirmed", "timedOut"} :
          LET left == IF outcome = "timedOut"
                      THEN phases.outstanding \cup {phases.connection}
                      ELSE phases.outstanding
          IN  IF outcome = "confirmed"
              THEN phases' = [phases EXCEPT !.pc = "done", !.outstanding = left]
              ELSE IF phases.connection < NumEndpoints
              THEN phases' = [phases EXCEPT !.connection = phases.connection + 1,
                                            !.outstanding = left]
              ELSE phases' = [phases EXCEPT
                                 !.retryCount = phases.retryCount + 1,
                                 !.connection = 1,
                                 !.outstanding = left,
                                 !.pc = IF moreRetries(phases.retryCount + 1)
                                        THEN "broadcast" ELSE "escalate"]
    /\ UNCHANGED <<unit, confirmCall, estVars, poolVars, priceCall, resolverVars, formatCall,
                   escalation, balancesCall, fanout, race, instance>>
    /\ UNCHANGED mainVars

\* currentPriorityFee = Math.floor(...) and the next pass of the outer loop
PhaseEscalate ==
    /\ unit = "phases"
    /\ phases.pc = "escalate"
    /\ phases.escalations < MaxPhaseEscalations
    /\ phases' = [phases EXCEPT !.pc = "broadcast", !.retryCount = 0,
                                !.escalations = phases.escalations + 1]
    /\ UNCHANGED <<unit, confirmCall, estVars, poolVars, priceCall, resolverVars, formatCall,
                   escalation, balancesCall, fanout, race, instance>>
    /\ UNCHANGED mainVars

\* an abandoned status request completes; nobody reads its result
PhaseRequestCompletes ==
    /\ unit = "phases"
    /\ \E e \in phases.outstanding :
          phases' = [phases EXCEPT !.outstanding = phases.outstanding \ {e}]
    /\ UNCHANGED <<unit, confirmCall, estVars, poolVars, priceCall, resolverVars, formatCall,
                   escalation, balancesCall, fanout, race, instance>>
    /\ UNCHANGED mainVars

\* the token symbols a balance request may name
BalanceSymbols == { {"SOL"}, {"USDC"}, {"BONK", "USDC"}, {"SOL", "BONK", "XXX"} }

\* SolanaController.balances: getWallet inside a try whose catch throws the
\* LOAD_WALLET HttpException; then getBalance, whose failure leaves as it is
balances ==
    /\ unit = "balances"
    /\ balancesCall = Null
    /\ \E tokenSymbols \in BalanceSymbols, loaded \in BOOLEAN :
          IF ~loaded
          THEN balancesCall' = [loaded |-> FALSE, tokenSymbols |-> tokenSymbols,
                                balanceQueried |-> FALSE,
                                error |-> Err("LOAD_WALLET_ERROR_CODE", "getWallet"),
                                balances |-> Null]
          ELSE \/ balancesCall' = [loaded |-> TRUE, tokenSymbols |-> tokenSymbols,
                                   balanceQueried |-> TRUE,
                                   error |-> Err("Error", "getBalance"),
                                   balances |-> Null]
               \/ \E w \in Wallets :
                     balancesCall' = [loaded |-> TRUE, tokenSymbols |-> tokenSymbols,
                                      balanceQueried |-> TRUE,
                                      error |-> NoError,
                                      balances |-> getBalance(w, tokenSymbols)]
    /\ UNCHANGED <<unit, confirmCall, estVars, poolVars, priceCall, resolverVars, formatCall,
                   escalation, fanout, phases, race, instance>>
    /\ UNCHANGED mainVars

(***************************************************************************)
(* price(): getTradeInfo inside the same catch as in trade(); it keeps     *)
(* nothing beyond its response.                                            *)
(***************************************************************************)
price ==
    /\ unit = "price"
    /\ priceCall = Null
    /\ \E o \in getTradeInfo(req) :
          priceCall' = [error |-> IF o.error # NoError THEN priceFailed(o.error)
                                  ELSE NoError,
                        quote |-> o.quote,
                        quoteRequested |-> o.quoteRequested]
    /\ UNCHANGED <<unit, confirmCall, estVars, poolVars, resolverVars, formatCall, escalation, balancesCall, fanout, phases, race, instance>>
    /\ UNCHANGED mainVars

Next ==
    \/ TradeGetWallet
    \/ TradeGetTradeInfo
    \/ TradeLimitGuard
    \/ TradeBalanceGuard
    \/ TradeExecuteSwap
    \/ TradeReturn
    \/ CtlInitFee
    \/ CtlCeilingExceeded
    \/ CtlBuildSwap
    \/ CtlPrepareTx
    \/ SendRawStart
    \/ SendRawRound
    \/ SendRawExceeded
    \/ CtlConfirm
    \/ CtlEscalate
    \/ Tick
    \/ ConfirmCall
    \/ EstimateStart
    \/ EstimateFetched
    \/ ClockTick
    \/ getNextConnection
    \/ getAllConnections
    \/ SymbolCall
    \/ PriceAmounts
    \/ EscalationPass
    \/ EscalationCeiling
    \/ balances
    \/ BroadcastFanOut
    \/ ConfirmNext
    \/ EndpointSettles
    \/ PhaseBroadcast
    \/ PhasePoll
    \/ PhaseEscalate
    \/ PhaseRequestCompletes
    \/ RaceStart
    \/ RaceFetched
    \/ RaceTick
    \/ InitCall
    \/ InitLoaded

Spec == Init /\ [][Next]_vars

\* price() beside the trade() of the same request, up to the call of
\* executeSwap; how executeSwap runs from there is part of Spec
PriceNext ==
    \/ price
    \/ TradeGetWallet
    \/ TradeGetTradeInfo
    \/ TradeLimitGuard
    \/ TradeBalanceGuard
    \/ TradeExecuteSwap

PriceSpec == PriceInit /\ [][PriceNext]_vars

(***************************************************************************)
(* Properties.                                                             *)
(***************************************************************************)

\* C1: in trade() the swap is built, simulated and broadcast only after the
\* limit-price guard and the balance guard of that call have both passed: in
\* every state where a swap has been built or a transaction broadcast, the
\* request's limit (if any) admits the expected price and the wallet state
\* the balance guard read holds an account with at least the needed amount;
\* and a trade() that failed a guard or token resolution has built and
\* broadcast nothing.
C1_SwapOnlyAfterGuards ==
    mode = "swap" =>
       LET p == tradeInfo.expectedPrice
           limitPassed ==
              \/ req.limitPrice = Undefined
              \/ IF req.side = "BUY"
                 THEN p.num <= req.limitPrice.str * p.den
                 ELSE p.num >= req.limitPrice.str * p.den
           symbol == IF req.side = "SELL" THEN tradeInfo.baseToken.symbol
                     ELSE tradeInfo.quoteToken.symbol
           needed == IF req.side = "SELL" THEN Amt(req.amount, 0)
                     ELSE tradeInfo.expectedAmount
           held == getBalance(wallet, {symbol})
           balancePassed ==
              /\ wallet # Null
              /\ symbol \in DOMAIN held
              /\ ~DecLt(held[symbol], needed)
           guardFailed ==
              /\ tradePc = "failed"
              /\ tradeError.cause \in {"TokenNotFound", "limitPrice", "balance"}
       IN  /\ (built \/ lastSent # NoTx) =>
                 tradeInfo # Null /\ limitPassed /\ balancePassed
           /\ guardFailed => ~built /\ lastSent = NoTx

\* a trade with a limit price went through both guards, built, broadcast and
\* returned
C1_Witness ==
    /\ tradePc = "done"
    /\ req.limitPrice # Undefined
    /\ built
    /\ lastSent # NoTx

\* C2: once trade() is past the limit guard, it has failed with the
\* limit-price failure of its side exactly when a limitPrice was supplied and
\* the expected price is above it (BUY) or below it (SELL); equality passes
\* and a request without limitPrice is never rejected on price.
C2_LimitGuardExact ==
    (mode = "swap" /\ tradeInfo # Null /\ tradePc # "limitGuard") =>
       LET p == tradeInfo.expectedPrice
           rejected ==
              /\ tradePc = "failed"
              /\ tradeError.code \in {"SWAP_PRICE_EXCEEDS_LIMIT_PRICE_ERROR_CODE",
                                      "SWAP_PRICE_LOWER_THAN_LIMIT_PRICE_ERROR_CODE"}
           beyond ==
              /\ req.limitPrice # Undefined
              /\ IF req.side = "BUY"
                 THEN p.num > req.limitPrice.str * p.den
                 ELSE p.num < req.limitPrice.str * p.den
       IN  /\ rejected <=> beyond
           /\ rejected =>
                 tradeError.code = IF req.side = "BUY"
                                   THEN "SWAP_PRICE_EXCEEDS_LIMIT_PRICE_ERROR_CODE"
                                   ELSE "SWAP_PRICE_LOWER_THAN_LIMIT_PRICE_ERROR_CODE"

\* a request whose expected price equals its limit has passed the limit guard
C2_Witness ==
    /\ tradePc = "balanceGuard"
    /\ req.limitPrice # Undefined
    /\ tradeInfo.expectedPrice.num = req.limitPrice.str * tradeInfo.expectedPrice.den

\* C3: for every wallet state the balance guard read, a wallet without an
\* account for the token counting as a balance of zero, trade() has failed
\* with the insufficient-balance failure of its side exactly when the balance
\* is below the requested amount (SELL) or the expected spend (BUY), and then
\* no swap was built.
C3_InsufficientBalanceExact ==
    (mode = "swap" /\ wallet # Null) =>
       LET symbol == IF req.side = "SELL" THEN tradeInfo.baseToken.symbol
                     ELSE tradeInfo.quoteToken.symbol
           needed == IF req.side = "SELL" THEN Amt(req.amount, 0)
                     ELSE tradeInfo.expectedAmount
           balance == getBalance(wallet, {symbol})
           held == IF symbol \in DOMAIN balance THEN balance[symbol] ELSE Amt(0, 0)
           insufficient ==
              /\ tradePc = "failed"
              /\ tradeError.code = IF req.side = "SELL"
                                   THEN "INSUFFICIENT_BASE_TOKEN_BALANCE_ERROR_CODE"
                                   ELSE "INSUFFICIENT_QUOTE_TOKEN_BALANCE_ERROR_CODE"
       IN  /\ insufficient <=> DecLt(held, needed)
           /\ DecLt(held, needed) => ~built

\* C4: once an endpoint has reported the broadcast transaction failed on
\* chain, the only step the controller takes is to terminate with a failure:
\* it makes no further broadcast, no further poll and no fee escalation.
C4_StopsOnChainFailure ==
    [][ failedSeen =>
           \/ ctlVars' = ctlVars /\ histVars' = histVars
           \/ ctlPc # "failed" /\ ctlPc' = "failed" ]_vars

\* C5: sendAndConfirmTransaction has returned a signature only if the answer
\* that ended its polling reported that signature Confirmed.
C5_SendSuccessOnlyIfConfirmed ==
    (mode = "send" /\ ctlPc = "done") => accepted.confirmed

\* C6: executeSwap has returned a receipt only if the answer that ended its
\* polling reported the returned signature Confirmed and came with the
\* transaction's data, and the receipt's fee and compute units are those of
\* that data.
C6_ReceiptFromConfirmedData ==
    (mode = "swap" /\ ctlPc = "done") =>
       /\ accepted.confirmed
       /\ accepted.txData \in TxDatas
       /\ receipt.signature = accepted.signature
       /\ receipt.feeInLamports = accepted.txData.fee
       /\ receipt.computeUnitLimit = accepted.txData.computeUnitsConsumed

\* executeSwap returned a receipt to trade()
C6_Witness ==
    /\ mode = "swap"
    /\ ctlPc = "done"
    /\ tradePc = "done"
    /\ receipt # Null

\* C7: every transaction broadcast carries a fee of at most maxPriorityFee;
\* the step that leaves the inner loop for the outer one replaces the fee by
\* floor(fee * priorityFeeMultiplier); and at the top of the outer loop a fee
\* above maxPriorityFee, the initial one included, ends the call with the
\* fee-ceiling failure and without a broadcast.
C7_FeeWithinCeiling ==
    [][ /\ lastSent' # NoTx => lastSent'.fee <= maxPriorityFee
        /\ (ctlPc = "innerLoop" /\ ctlPc' = "outerLoop") =>
              currentPriorityFee' =
                 (currentPriorityFee * priorityFeeMultiplier.num)
                    \div priorityFeeMultiplier.den
        /\ (ctlPc = "outerLoop" /\ currentPriorityFee > maxPriorityFee) =>
              /\ ctlPc' = "failed"
              /\ ctlError'.cause = "maximumPriorityFee"
              /\ lastSent' = lastSent ]_vars

\* a call that broadcast, escalated past the ceiling and failed on it
C7_Witness ==
    /\ ctlPc = "failed"
    /\ ctlError.cause = "maximumPriorityFee"
    /\ lastSent # NoTx

\* C8 as stated: whenever a round broadcasts a transaction after a
\* differently signed one was broadcast in the same call, the network height
\* is beyond the validity ceiling of the earlier one.
C8_PreviousWindowExpired ==
    (lastRound.at # -1 /\ prevSent # NoTx) =>
       lastRound.at > prevSent.lastValidBlockHeight

\* C8 amended: the controller raises the fee only on leaving the inner loop
\* with all retryCount rounds at the current fee counted and none of them
\* accepted, and it signs a new transaction only at the top of the outer
\* loop; the network height plays no part.
C8_EscalatesAfterRetryCount ==
    [][ /\ (ctlPc = "innerLoop" /\ ctlPc' = "outerLoop") =>
              retryCount = chainRetryCount /\ accepted = Null
        /\ (/\ currentPriorityFee' # currentPriorityFee
            /\ ctlPc # "start"
            /\ ctlPc' \notin {"done", "failed"}) =>
              ctlPc = "innerLoop" /\ ctlPc' = "outerLoop"
        /\ (tx' # tx /\ tx' # NoTx) => ctlPc = "outerLoop" ]_vars

\* a transaction with a raised fee is broadcast while the one broadcast
\* before it is still within its validity window
C8_Witness ==
    /\ lastRound.at # -1
    /\ prevSent # NoTx
    /\ lastSent.fee > prevSent.fee
    /\ lastRound.at <= prevSent.lastValidBlockHeight

\* C9: a round of sendRawTransaction returns an identifier exactly when the
\* accepting endpoints returned one identifier between them, whether or not
\* other endpoints rejected, and it returns that identifier; a round without
\* acceptance or with disagreeing identifiers returns nothing and leaves the
\* loop where it is, its condition unchanged, so that another round follows.
C9_ConsistentRound ==
    [][ (ctlPc = "rawLoop" /\ lastRound'.at # -1) =>
           /\ ctlPc' = "confirm" <=> Cardinality(lastRound'.accepted) = 1
           /\ ctlPc' = "confirm" => lastRound'.accepted = {signature'}
           /\ ctlPc' # "confirm" =>
                 /\ ctlPc' = "rawLoop"
                 /\ signature' = ""
                 /\ blockheight' = blockheight
                 /\ tx' = tx ]_vars

\* a round returned the identifier of the accepting endpoint although another
\* endpoint rejected
C9_Witness ==
    /\ ctlPc = "confirm"
    /\ lastRound.rejected
    /\ lastRound.accepted = {signature}

\* C10: sendRawTransaction broadcasts no round once the network height is
\* above the validity ceiling of the payload plus 50.
C10_NoBroadcastBeyondCeiling ==
    lastRound.at # -1 =>
       lastRound.at <= lastSent.lastValidBlockHeight + HEIGHT_TOLERANCE

C12_ConfirmedEndsRound ==
    polledConfirmed => ctlPc = "done"

\* C13: when a call of estimatePriorityFees starts less than the cache window
\* after the call before it completed, and that call had queried the network
\* and received samples (whatever they were), it issues no query and returns
\* the value the call before it returned.
C13_ReusedWithinWindow ==
    ( /\ estCall # Null
      /\ estPrev # Null
      /\ estPrev.received
      /\ estCall.started - estPrev.completed < PRIORITY_FEE_CACHE_MS )
    => ( /\ ~estCall.queried
         /\ estCall.outcome = estPrev.outcome )

\* C14: for every sample set with at least one non-zero sample and every
\* configured percentile, the value estimatePriorityFees returns is at least
\* the configured minimum fee per compute unit.
C14_AtLeastMinimumFee ==
    ( /\ estCall # Null
      /\ estCall.received
      /\ Len(nonZero(estCall.samples)) > 0 )
    => estCall.outcome.value >= minimumFee

\* the percentile picked a non-zero sample below the minimum fee out of
\* several, and the minimum fee came back
C14_Witness ==
    /\ estCall # Null
    /\ estCall.received
    /\ estCall.samples = <<5, 1, 3>>
    /\ priorityFeePercentile = [num |-> 1, den |-> 3]
    /\ estCall.outcome = [value |-> minimumFee]

\* C15: for every sample set that is empty or all zeros, estimatePriorityFees
\* returns exactly the configured minimum fee, which is not zero.
C15_MinimumFeeWithoutSamples ==
    ( /\ estCall # Null
      /\ estCall.received
      /\ \A i \in 1..Len(estCall.samples) : estCall.samples[i] = 0 )
    => ( /\ estCall.outcome.value * defaultComputeUnits = minPriorityFee * MICRO_PER_UNIT
         /\ estCall.outcome.value # 0 )

\* a call received only zeros and returned the minimum fee
C15_Witness ==
    /\ estCall # Null
    /\ estCall.received
    /\ estCall.samples = <<0, 0>>
    /\ estCall.outcome = [value |-> minimumFee]

\* C16: a failed fee-sample query makes estimatePriorityFees throw and leaves
\* the cache slot as it was; a caller whose estimate failed has failed with
\* that failure: the fee loop neither built nor broadcast anything and holds
\* no fee, and trade() has no trade information and started no swap.
C16_EstimateFailurePropagates ==
    /\ [][ (estPc = "fetching" /\ estCall'.outcome = [error |-> "fetch"])
             => lastPriorityFeeEstimate' = lastPriorityFeeEstimate ]_vars
    /\ [](ctlError.cause = "estimatePriorityFees"
            => ( /\ ctlPc = "failed"
                 /\ currentPriorityFee = 0
                 /\ ~built
                 /\ lastSent = NoTx
                 /\ receipt = Null ))
    /\ [](tradeError.cause = "estimateGas"
            => ( /\ tradePc = "failed"
                 /\ tradeInfo = Null
                 /\ ctlPc = "idle"
                 /\ tradeResponse = Null ))

\* a query failed while the cache held an estimate, and the estimate is still
\* there
C16_Witness ==
    /\ estCall # Null
    /\ estCall.outcome = [error |-> "fetch"]
    /\ lastPriorityFeeEstimate # Null

\* C17: in a pool of n >= 1 endpoints, whichever requests make the calls,
\* the k-th call of getNextConnection (k from 0) returns endpoint number
\* k mod n, the rotation index stays within 0..n-1, and getAllConnections
\* returns all n endpoints in order and leaves the index as it was.
C17_RoundRobin ==
    LET n == Cardinality(DOMAIN connections)
    IN  /\ currentIndex \in 0..(n - 1)
        /\ currentIndex = poolCalls % n
        /\ (poolLast # Null /\ poolLast.op = "getNextConnection") =>
              poolLast.returned = <<[rpcEndpoint |-> poolLast.call % n]>>
        /\ (poolLast # Null /\ poolLast.op = "getAllConnections") =>
              /\ poolLast.returned = [i \in 1..n |-> [rpcEndpoint |-> i - 1]]
              /\ currentIndex = poolLast.indexBefore

\* the rotation wrapped: call number n of a pool of n > 1 endpoints, made by
\* the second request, returned endpoint 0 again
C17_Witness ==
    /\ poolLast # Null
    /\ poolLast.op = "getNextConnection"
    /\ Cardinality(DOMAIN connections) > 1
    /\ poolLast.call = Cardinality(DOMAIN connections)
    /\ poolLast.requester = 2
    /\ poolLast.returned = <<[rpcEndpoint |-> 0]>>

\* C18: when the base or the quote symbol of the request is not in the token
\* list, price() and trade() fail with a failure kind of their own for the
\* missing token, not with PRICE_FAILED, and ask the connector for no quote.
C18_TokenNotFoundKind ==
    LET absent == \/ getTokenForSymbol(req.base) = Null
                  \/ getTokenForSymbol(req.quote) = Null
    IN  /\ (req # Null /\ absent /\ priceCall # Null) =>
              /\ priceCall.error # NoError
              /\ priceCall.error.code # "PRICE_FAILED_ERROR_CODE"
              /\ ~priceCall.quoteRequested
        /\ (req # Null /\ absent /\ tradePc = "failed"
               /\ tradeError.cause = "TokenNotFound") =>
              /\ tradeError.code # "PRICE_FAILED_ERROR_CODE"
              /\ ~quoteRequested

\* C19: a trade() that reaches swap execution has asked the connector for a
\* quote inside the call, hands exactly that quote to executeSwap, and holds
\* trade information derived from that quote; a quote that a price() call
\* obtained for the same request is not what is handed over.
C19_QuoteOfThisCall ==
    swapQuote # Null =>
       /\ quoteRequested
       /\ swapQuote = quote
       /\ \E o \in getTradeInfo(req) :
             /\ o.error = NoError
             /\ o.quote = swapQuote
             /\ o.tradeInfo = tradeInfo

\* price() obtained one quote for the request, trade() another, and the
\* swap got the one of trade()
C19_Witness ==
    /\ swapQuote # Null
    /\ priceCall # Null
    /\ priceCall.quote # Null
    /\ priceCall.quote # swapQuote
    /\ swapQuote = quote

\* C20: for every token list and every symbol s, getTokenBySymbol(s) returns
\* the last entry of the list whose symbol equals s when letter case is
\* ignored, and undefined when no entry does.
C20_LastMatchIgnoringCase ==
    symbolCall # Null =>
       LET matches == { i \in 1..Len(tokenList) :
                          toUpperCase(tokenList[i].symbol)
                             = toUpperCase(symbolCall.tokenSymbol) }
       IN  IF matches = {}
           THEN symbolCall.result = Undefined
           ELSE \E i \in matches :
                   /\ \A j \in matches : j <= i
                   /\ symbolCall.result = tokenList[i]

\* a list with the symbol in two spellings and another token after them,
\* asked in a third spelling: the second entry came back
C20_Witness ==
    /\ symbolCall # Null
    /\ symbolCall.tokenSymbol = "Usdc"
    /\ Len(tokenList) = 3
    /\ tokenList[1].symbol = "USDC"
    /\ tokenList[2].symbol = "usdc"
    /\ tokenList[3].symbol = "BONK"
    /\ symbolCall.result = tokenList[2]

\* C21: for every requested amount and every base token with d decimals,
\* price() returns amount as the decimal string of the requested amount with
\* exactly d fractional digits and rawAmount as the plain integer string of
\* amount * 10^d.
C21_ExactAmountStrings ==
    formatCall # Null =>
       /\ formatCall.amount =
             [notation |-> "fixed", digits |-> formatCall.reqAmount.digits,
              zeros |-> formatCall.reqAmount.zeros,
              fractionDigits |-> formatCall.decimals]
       /\ formatCall.rawAmount =
             [notation |-> "decimal", digits |-> formatCall.reqAmount.digits,
              zeros |-> formatCall.reqAmount.zeros + formatCall.decimals]

\* C22: when no attempt is ever confirmed, the controller makes
\* ceil(log_m(C / f0)) escalations before it fails on the fee ceiling C: it
\* never makes more, and it has made exactly that many when it fails.
C22_EscalationStepCount ==
    escalation # Null =>
       LET m == escalation.multiplier
           RECURSIVE Pow(_, _)
           Pow(b, k) == IF k = 0 THEN 1 ELSE b * Pow(b, k - 1)
           ceilLog == CHOOSE k \in 0..8 :
                         /\ escalation.initialFee * Pow(m.num, k)
                               >= maxPriorityFee * Pow(m.den, k)
                         /\ \A j \in 0..(k - 1) :
                               escalation.initialFee * Pow(m.num, j)
                                  < maxPriorityFee * Pow(m.den, j)
       IN  /\ escalation.steps <= ceilLog
           /\ escalation.failed => escalation.steps = ceilLog


\* C23 as written (refuted): a SELL whose expected price is below its
\* limitPrice (price 10 against limit 99999999999; here the quoted prices
\* 1/2 against limit 1) proceeds past the limit-price guard.
C23_SellBelowLimitProceeds ==
    (/\ mode = "swap" /\ tradeInfo # Null /\ tradePc # "limitGuard"
     /\ req.side = "SELL" /\ req.limitPrice # Undefined
     /\ tradeInfo.expectedPrice.num < req.limitPrice.str * tradeInfo.expectedPrice.den)
    => ~(tradePc = "failed" /\ tradeError.cause = "limitPrice")

\* C23 (amended): a SELL whose expected price is below its limitPrice is
\* rejected by the limit-price guard: trade() has failed with
\* SWAP_PRICE_LOWER_THAN_LIMIT_PRICE, and has queried no balance, built no
\* swap and broadcast nothing.
C23_SellBelowLimitRejected ==
    (/\ mode = "swap" /\ tradeInfo # Null /\ tradePc # "limitGuard"
     /\ req.side = "SELL" /\ req.limitPrice # Undefined
     /\ tradeInfo.expectedPrice.num < req.limitPrice.str * tradeInfo.expectedPrice.den)
    => /\ tradePc = "failed"
       /\ tradeError = Err("SWAP_PRICE_LOWER_THAN_LIMIT_PRICE_ERROR_CODE", "limitPrice")
       /\ ~balanceQueried /\ ~built /\ lastSent = NoTx

\* a SELL quoted below its limit was stopped at the limit-price guard
C23_Witness ==
    /\ mode = "swap" /\ tradePc = "failed"
    /\ req.side = "SELL" /\ req.limitPrice # Undefined
    /\ tradeInfo # Null
    /\ tradeInfo.expectedPrice.num < req.limitPrice.str * tradeInfo.expectedPrice.den
    /\ tradeError.code = "SWAP_PRICE_LOWER_THAN_LIMIT_PRICE_ERROR_CODE"


\* C24: trade() evaluates the limit-price guard before the balance guard: a
\* balance has been queried only in a call whose limit guard has already
\* passed, and a call the limit guard rejected has failed with the
\* limit-price failure having queried no balance (so whatever the wallet
\* holds), built no swap and broadcast nothing.
C24_LimitGuardBeforeBalance ==
    mode = "swap" =>
       /\ balanceQueried =>
             /\ tradeInfo # Null
             /\ tradePc \notin {"getWallet", "getTradeInfo", "limitGuard"}
             /\ ~limitRejects(req.side, req.limitPrice, tradeInfo.expectedPrice)
       /\ (tradePc = "failed" /\ tradeError.cause = "limitPrice") =>
             /\ tradeError.code \in {"SWAP_PRICE_EXCEEDS_LIMIT_PRICE_ERROR_CODE",
                                     "SWAP_PRICE_LOWER_THAN_LIMIT_PRICE_ERROR_CODE"}
             /\ ~balanceQueried /\ wallet = Null
             /\ ~built /\ lastSent = NoTx /\ ctlPc = "idle"

\* a BUY quoted above its limit was rejected before any balance was read
C24_Witness ==
    /\ mode = "swap" /\ tradePc = "failed"
    /\ req.side = "BUY"
    /\ tradeError.code = "SWAP_PRICE_EXCEEDS_LIMIT_PRICE_ERROR_CODE"
    /\ ~balanceQueried


\* C25 (refuted): when the wallet cannot be loaded, SolanaController.balances
\* and trade() both fail with the LOAD_WALLET failure, and the failed call
\* has fetched no quote, queried no balance and submitted nothing.
C25_LoadWalletErrorKind ==
    /\ (balancesCall # Null /\ ~balancesCall.loaded) =>
          /\ balancesCall.error.code = "LOAD_WALLET_ERROR_CODE"
          /\ ~balancesCall.balanceQueried
    /\ (mode = "swap" /\ tradePc = "failed" /\ tradeError.cause = "getWallet") =>
          /\ tradeError.code = "LOAD_WALLET_ERROR_CODE"
          /\ ~quoteRequested /\ ~balanceQueried /\ ~built /\ lastSent = NoTx


\* C26 (refuted): when sendRawTransaction has failed with 'Maximum
\* blockheight exceeded', the controller does not call it again with the same
\* payload: the step in which the failure is caught leaves the inner loop
\* with no retry remaining, so that the next call is made only after the fee
\* was escalated and a transaction with a new validity ceiling was prepared.
C26_NoResendAfterMaxHeight ==
    [][(/\ ctlPc = "rawLoop" /\ ctlPc' = "innerLoop"
        /\ ~withinHeight(blockheight, tx.lastValidBlockHeight))
       => (tx' = tx /\ ~moreRetries(retryCount'))]_vars


\* C27 as written (refuted): at each fee level the retry counter stays within
\* retryCount, it counts broadcast-and-poll rounds only (every increment
\* ends a poll of the last endpoint that followed a broadcast), the fee is
\* escalated only with the counter at retryCount and nothing accepted, and
\* the counter is zero when the inner loop is entered.
C27_CountsPolledRoundsOnly ==
    [][ /\ retryCount' <= chainRetryCount
        /\ retryCount' = retryCount + 1 =>
              ctlPc = "confirm" /\ connection = NumEndpoints
        /\ (ctlPc = "innerLoop" /\ ctlPc' = "outerLoop") =>
              retryCount = chainRetryCount /\ accepted = Null
        /\ (ctlPc = "outerLoop" /\ ctlPc' = "innerLoop") => retryCount' = 0 ]_vars

\* C27 (amended): at each fee level the controller makes at most retryCount
\* attempts: a call of sendRawTransaction is made only while the counter is
\* below retryCount; the counter rises by one exactly when an attempt ends,
\* which is either a poll of every endpoint after a broadcast with no result
\* accepted, or a call of sendRawTransaction that threw (its height read
\* failed, or the height was beyond the ceiling); the fee is escalated only
\* with the counter at retryCount and nothing accepted; and the counter is
\* zero when the inner loop is entered at the next fee level.
C27_RetryCountPerFeeLevel ==
    [][ /\ retryCount' \in {retryCount, retryCount + 1, 0}
        /\ retryCount' <= chainRetryCount
        /\ (ctlPc = "innerLoop" /\ ctlPc' = "rawLoop") => retryCount < chainRetryCount
        /\ retryCount' = retryCount + 1 =>
              \/ ctlPc = "confirm" /\ connection = NumEndpoints /\ ctlPc' = "innerLoop"
              \/ /\ ctlPc = "rawLoop" /\ ctlPc' = "innerLoop"
                 /\ ~withinHeight(blockheight, tx.lastValidBlockHeight)
              \/ ctlPc = "innerLoop" /\ ctlPc' = "innerLoop"
        /\ (ctlPc \in {"confirm", "rawLoop"} /\ ctlPc' = "innerLoop") =>
              retryCount' = retryCount + 1
        /\ (ctlPc = "innerLoop" /\ ctlPc' = "outerLoop") =>
              /\ retryCount = chainRetryCount /\ accepted = Null
              /\ currentPriorityFee' = escalate(currentPriorityFee, priorityFeeMultiplier)
        /\ (ctlPc = "outerLoop" /\ ctlPc' = "innerLoop") => retryCount' = 0 ]_vars

\* the fee was escalated after retryCount attempts none of which broadcast
C27_Witness ==
    /\ ctlPc = "outerLoop"
    /\ retryCount = chainRetryCount
    /\ lastSent = NoTx


\* C28: after every escalation the next transaction the controller broadcasts
\* was prepared after it: escalation leaves the inner loop for the top of the
\* outer loop, where nothing is broadcast; the pass from there into the inner
\* loop signs a transaction whose validity ceiling is obtained in that very
\* step (the network's height then, plus its window) and whose fee is the
\* current, escalated fee; neither changes before the next escalation; and
\* every round broadcasts that transaction.
C28_FreshBoundsAfterEscalation ==
    [][ /\ (ctlPc = "innerLoop" /\ ctlPc' = "outerLoop") =>
              currentPriorityFee' = escalate(currentPriorityFee, priorityFeeMultiplier)
        /\ (ctlPc = "outerLoop" /\ ctlPc' = "innerLoop") =>
              /\ currentPriorityFee' = currentPriorityFee
              /\ tx'.lastValidBlockHeight \in freshCeilings
              /\ tx'.fee = IF mode = "swap" THEN swapFee(currentPriorityFee)
                           ELSE sendFee(currentPriorityFee)
        /\ (/\ ctlPc \in {"innerLoop", "rawLoop", "confirm"}
            /\ ctlPc' \in {"innerLoop", "rawLoop", "confirm"}) =>
              tx' = tx /\ currentPriorityFee' = currentPriorityFee
        /\ lastRound'.at # -1 =>
              /\ ctlPc = "rawLoop"
              /\ lastSent' = tx
              /\ tx.fee = IF mode = "swap" THEN swapFee(currentPriorityFee)
                          ELSE sendFee(currentPriorityFee) ]_vars

\* a round broadcasts a transaction with a raised fee and a later validity
\* ceiling than the one broadcast before it in the same call
C28_Witness ==
    /\ lastRound.at # -1
    /\ prevSent # NoTx
    /\ lastSent.fee > prevSent.fee
    /\ lastSent.lastValidBlockHeight > prevSent.lastValidBlockHeight


\* C29 (refuted): when the poll deadline passes before the endpoint has
\* answered, confirmTransaction returns the Unconfirmed outcome (a result
\* that is not confirmed and carries no detail) rather than throwing, as it
\* does for a transaction that failed on chain.
C29_TimeoutIsUnconfirmed ==
    (confirmCall # Null /\ confirmCall.answer.kind = "timeout") =>
       /\ ~confirmCall.result.throws
       /\ ~confirmCall.result.confirmed
       /\ confirmCall.result.txData = Undefined


\* C30 (refuted): within a broadcast round and within a confirmation round
\* the requests to all endpoints are in flight together: once the round has
\* issued a request to one endpoint it has issued one to every endpoint,
\* whether or not any of them has settled.
C30_ConcurrentFanOut ==
    (fanout # Null /\ fanout.issued # {}) => fanout.issued = Endpoints


\* C31 (refuted): within one controller call no broadcast and no fee
\* escalation starts while a status request of that call is outstanding,
\* a request abandoned at its deadline and not yet completed included.
C31_PhasesNeverOverlap ==
    [][ (/\ unit = "phases"
         /\ \/ phases.pc = "broadcast" /\ phases'.pc = "confirm"
            \/ phases.pc = "escalate" /\ phases'.pc = "broadcast")
        => phases.outstanding = {} ]_vars


\* C32: under every interleaving of concurrent estimatePriorityFees calls the
\* cache slot is empty or is the (timestamp, fee) pair one completed call
\* wrote whole, with the fee that call returned; and a call answered from the
\* slot returned the fee of such a pair.
C32_CacheSlotWhole ==
    race # Null =>
       LET wroteWhole(entry) ==
              \E r \in Racers :
                 /\ race.calls[r].pc = "done"
                 /\ race.calls[r].wrote = entry
                 /\ race.calls[r].returned = [value |-> entry.fee]
       IN  /\ race.cache = Null \/ wroteWhole(race.cache)
           /\ \A r \in Racers :
                 (race.calls[r].pc = "done" /\ ~race.calls[r].queried) =>
                    \E w \in Racers :
                       /\ w # r
                       /\ race.calls[w].wrote # Null
                       /\ wroteWhole(race.calls[w].wrote)
                       /\ race.calls[r].returned = [value |-> race.calls[w].wrote.fee]

\* two calls were in flight together and both wrote the slot, at different
\* times and with different fees; the slot holds the later pair
C32_Witness ==
    /\ race # Null
    /\ race.calls[1].wrote # Null
    /\ race.calls[2].wrote # Null
    /\ race.calls[1].wrote.timestamp < race.calls[2].wrote.timestamp
    /\ race.calls[1].wrote.fee # race.calls[2].wrote.fee
    /\ race.cache = race.calls[2].wrote


C34_QuoteDirectionAndMode ==
    (mode = "swap" /\ tradeInfo # Null /\ quote # Null) =>
       LET base == tradeInfo.baseToken
           quoted == tradeInfo.quoteToken
           requested == req.amount * Pow10(base.decimals)
       IN  IF req.side = "BUY"
           THEN /\ quote.inputMint = quoted.address
                /\ quote.outputMint = base.address
                /\ quote.swapMode = "ExactOut"
                /\ quote.outAmount = requested
           ELSE /\ quote.inputMint = base.address
                /\ quote.outputMint = quoted.address
                /\ quote.swapMode = "ExactIn"
                /\ quote.inAmount = requested


\* C35 (refuted): when the controller has ended with a failure, no
\* transaction it broadcast in that call can still be included: the network
\* height is beyond the validity ceiling of each of them.
C35_NothingPendingAfterFailure ==
    ctlPc = "failed" =>
       \A t \in {lastSent, prevSent} \ {NoTx} : height > t.lastValidBlockHeight


\* C36 (refuted): when no round is ever confirmed, each escalation strictly
\* increases the fee, for every initial fee and every multiplier above 1,
\* so that the fee passes the ceiling after finitely many escalations and
\* the call ends with the fee-ceiling failure.  (An escalation that leaves
\* the fee as it was returns the loop to the state it was in, for ever.)
C36_EscalationStrictlyIncreases ==
    [][ (unit = "escalation" /\ escalation'.steps = escalation.steps + 1)
        => escalation'.fee > escalation.fee ]_vars


\* C37: executeSwap broadcasts only a transaction whose simulation reported
\* no error: the transaction of a pass is signed and kept only in the step
\* in which its simulation passed; a simulation error ends executeSwap in
\* that very step with the simulation failure, the transaction of the pass
\* dropped and nothing broadcast; and after that failure the controller
\* neither broadcasts nor escalates again.
C37_SimulatedBeforeBroadcast ==
    [][ /\ (mode = "swap" /\ tx' # tx /\ tx' # NoTx) =>
              /\ ctlPc = "outerLoop" /\ ctlPc' = "innerLoop"
              /\ ctlError' = NoError
        /\ (mode = "swap" /\ lastRound'.at # -1 /\ lastRound' # lastRound) =>
              lastSent' = tx /\ ctlError = NoError
        /\ (ctlError'.cause = "simulateTransaction" /\ ctlError' # ctlError) =>
              /\ mode = "swap" /\ ctlPc = "outerLoop" /\ ctlPc' = "failed"
              /\ ctlError'.code = "SIMULATION_ERROR_CODE"
              /\ tx' = NoTx
              /\ lastSent' = lastSent /\ lastRound' = lastRound
        /\ ctlError.cause = "simulateTransaction" =>
              /\ lastSent' = lastSent /\ lastRound' = lastRound
              /\ currentPriorityFee' = currentPriorityFee
              /\ ctlPc' \notin {"outerLoop", "innerLoop", "rawLoop", "confirm"} ]_vars

\* the simulation of the transaction of a later pass reported an error after
\* an earlier transaction had been broadcast, and executeSwap has failed
C37_Witness ==
    /\ mode = "swap"
    /\ ctlPc = "failed"
    /\ ctlError = Err("SIMULATION_ERROR_CODE", "simulateTransaction")
    /\ lastSent # NoTx


\* C38 (refuted): a call of estimatePriorityFees that was answered from the
\* cache returned a fee that a call on the instance of the same network had
\* computed and stored.
C38_EstimateOfSameNetwork ==
    race # Null =>
       \A r \in Racers :
          (race.calls[r].pc = "done" /\ ~race.calls[r].queried) =>
             \E w \in Racers :
                /\ networkOf(w) = networkOf(r)
                /\ race.calls[w].wrote # Null
                /\ race.calls[r].returned = [value |-> race.calls[w].wrote.fee]


\* C39 (refuted): whenever a call of init() has completed without throwing,
\* ready() was true and the token maps were loaded at that moment, also for
\* a call made while another call of init() on the instance was loading.
C39_InitCompletesReady ==
    instance # Null =>
       \A c \in 1..MaxInitCalls :
          instance.calls[c].pc = "completed" =>
             instance.calls[c].readyAtEnd /\ instance.calls[c].loadedAtEnd


\* C40 (refuted): for every loaded token list and every symbol, the lookup
\* in the symbol map that loadTokens filled (getTokenForSymbol) and
\* getTokenBySymbol either both find no token or both return the same entry
\* of the list.
C40_ResolversAgree ==
    symbolCall # Null =>
       LET tokenMap == loadTokens(tokenList)
           s == symbolCall.tokenSymbol
           forSymbol == IF s \in DOMAIN tokenMap THEN tokenMap[s] ELSE Null
           bySymbol == symbolCall.result
       IN  IF forSymbol = Null THEN bySymbol = Undefined
           ELSE bySymbol = forSymbol

====
